---------------------------- MODULE Spec2Model ----------------------------
(***************************************************************************)
(* Trading-signal ledger and entry/exit classifier.                        *)
(*                                                                         *)
(* Models src/utils/all_signals_fetcher.py (the ledger build) and          *)
(* src/utils/entry_exit_fetcher.py (the field parser, the record           *)
(* normalizer and the entry/exit classifier), the older top-level          *)
(* src/all_signals_fetcher.py and src/entry_exit_fetcher.py, which work on *)
(* the same three files, and the live price refreshes of                   *)
(* src/page_functions/all_signals.py and potential_signals.py.             *)
(*                                                                         *)
(* Specifications                                                          *)
(*  - Spec: ledger builds and classifier runs over the CSV files.          *)
(*  - SpecEval: entry_conditions / exit_conditions on single records.      *)
(*  - SpecParse: the parsers and build_standard_record on single rows.     *)
(*  - SpecRuns, SpecRootRuns: the current and the older pair of programs   *)
(*    run in turn, a classifier run possibly passing midnight.             *)
(*  - SpecLedger: ledger builds, classifier runs and price refreshes.      *)
(*  - SpecFaults: builds and classifier runs, one of which ends part-way.  *)
(*  - SpecLoad: builds from a missing, zero-length or row-less ledger.     *)
(*  - SpecBought: Buy and Remove on trades_bought.csv.                     *)
(*  - SpecEnrich: the enrichment of trades_bought.csv from the ledger.     *)
(*                                                                         *)
(* Conventions                                                             *)
(*  - A text is a sequence of one-character strings, so that strip, lower, *)
(*    split and the regular-expression searches are computed, not assumed. *)
(*  - A Python value is a cell [k, s, n]: None, NaN (the float pandas      *)
(*    gives a blank CSV cell), a text or a number.  Numbers are decimal    *)
(*    fixed point in hundredths (92.31 is 9231), exact for the inputs of   *)
(*    the model, which carry at most two decimals.                         *)
(*  - A record (Python dict) is a function from field names to cells; a    *)
(*    key the dict lacks is a name outside its DOMAIN.                     *)
(*  - A call that may raise returns [ok, val]; ok = FALSE is the exception. *)
(*  - A value the code binds to a local name and reads several times is    *)
(*    passed as the parameter of a local operator, so it is computed once. *)
(***************************************************************************)
EXTENDS Integers, Sequences, FiniteSets, TLC

VARIABLES
    all_signals_csv,      \* ALL_SIGNALS_CSV: the persisted ledger file
    potential_entry_csv,  \* POTENTIAL_ENTRY_CSV
    potential_exit_csv,   \* POTENTIAL_EXIT_CSV
    today,                \* date.today(), as a day ordinal
    runs,                 \* number of ledger-build runs started so far (bounded)
    last_run,             \* observation of the latest ledger-build run
    eval_record,          \* classifier probe: the record under evaluation
    eval_fetch_date,      \* classifier probe: the fetch date
    eval_result,          \* classifier probe: results of the two rule sets
    eval_pc,              \* classifier probe: position
    prev_classify,        \* observation of the classifier run before the latest
    last_classify,        \* observation of the latest classifier run
    last_fault,           \* observation of the latest run that failed part-way
    last_refresh,         \* observation of the latest live price refresh
    parse_row,            \* parser probe: the source row under normalization
    parse_result,         \* parser probe: what the parser calls returned
    parse_pc,             \* parser probe: position
    trades_bought_csv,    \* trades_bought.csv
    last_bought           \* observation of the latest operation on trades_bought.csv

vars == <<all_signals_csv, potential_entry_csv, potential_exit_csv, today,
          runs, last_run, eval_record, eval_fetch_date, eval_result, eval_pc,
          prev_classify, last_classify, last_fault, last_refresh,
          parse_row, parse_result, parse_pc, trades_bought_csv, last_bought>>

pipeline_vars == <<all_signals_csv, potential_entry_csv, potential_exit_csv,
                   today, runs, last_run>>

eval_vars == <<eval_record, eval_fetch_date, eval_result, eval_pc>>

classify_vars == <<prev_classify, last_classify>>

parse_vars == <<parse_row, parse_result, parse_pc>>

bought_vars == <<trades_bought_csv, last_bought>>

---------------------------------------------------------------------------
(* Python values *)

None == [k |-> "None", s |-> <<>>, n |-> 0]

NaN == [k |-> "nan", s |-> <<>>, n |-> 0]

Str(t) == [k |-> "str", s |-> t, n |-> 0]

Num(x) == [k |-> "num", s |-> <<>>, n |-> x]

IsNum(v) == v.k = "num"

IsStr(v) == v.k = "str"

\* dict.get(key, default)
Get(rec, key, default) == IF key \in DOMAIN rec THEN rec[key] ELSE default

\* Python truthiness: None, "", 0 are false; NaN is a non-zero float, so true
Truthy(v) ==
    CASE v.k = "None" -> FALSE
      [] v.k = "nan"  -> TRUE
      [] v.k = "str"  -> v.s # <<>>
      [] OTHER        -> v.n # 0

---------------------------------------------------------------------------
(* Text primitives *)

UpperAlpha == <<"A","B","C","D","E","F","G","H","I","J","K","L","M",
                "N","O","P","Q","R","S","T","U","V","W","X","Y","Z">>

LowerAlpha == <<"a","b","c","d","e","f","g","h","i","j","k","l","m",
                "n","o","p","q","r","s","t","u","v","w","x","y","z">>

Digits == <<"0","1","2","3","4","5","6","7","8","9">>

IsDigit(c) == \E i \in 1..10 : Digits[i] = c

DigitVal(c) == (CHOOSE i \in 1..10 : Digits[i] = c) - 1

IsSpace(c) == c \in {" ", "\t", "\n", "\r"}

lower_char(c) ==
    IF \E i \in 1..26 : UpperAlpha[i] = c
    THEN LowerAlpha[CHOOSE i \in 1..26 : UpperAlpha[i] = c]
    ELSE c

upper_char(c) ==
    IF \E i \in 1..26 : LowerAlpha[i] = c
    THEN UpperAlpha[CHOOSE i \in 1..26 : LowerAlpha[i] = c]
    ELSE c

\* str.lower() / str.upper()
lower(t) == IF t = <<>> THEN <<>> ELSE [i \in 1..Len(t) |-> lower_char(t[i])]

upper(t) == IF t = <<>> THEN <<>> ELSE [i \in 1..Len(t) |-> upper_char(t[i])]

RECURSIVE lstrip(_)
lstrip(t) == IF t # <<>> /\ IsSpace(Head(t)) THEN lstrip(Tail(t)) ELSE t

RECURSIVE rstrip(_)
rstrip(t) ==
    IF t # <<>> /\ IsSpace(t[Len(t)]) THEN rstrip(SubSeq(t, 1, Len(t) - 1)) ELSE t

\* str.strip()
strip(t) == rstrip(lstrip(t))

\* needle in hay
contains(hay, needle) ==
    \E i \in 1..(Len(hay) - Len(needle) + 1) :
        SubSeq(hay, i, i + Len(needle) - 1) = needle

\* str.split(sep) for a one-character separator
RECURSIVE split(_, _)
split(t, sep) ==
    IF \A i \in 1..Len(t) : t[i] # sep
    THEN <<t>>
    ELSE LET i == CHOOSE j \in 1..Len(t) :
                      t[j] = sep /\ \A h \in 1..(j - 1) : t[h] # sep
         IN  <<SubSeq(t, 1, i - 1)>> \o split(SubSeq(t, i + 1, Len(t)), sep)

\* sep.join(parts)
RECURSIVE join(_, _)
join(parts, sep) ==
    IF parts = <<>> THEN <<>>
    ELSE IF Len(parts) = 1 THEN parts[1]
    ELSE parts[1] \o <<sep>> \o join(Tail(parts), sep)

\* decimal digits of a natural number
RECURSIVE nat_text(_)
nat_text(x) ==
    IF x < 10 THEN <<Digits[x + 1]>> ELSE nat_text(x \div 10) \o <<Digits[(x % 10) + 1]>>

\* repr of a float given in hundredths: 13.0, 92.31, 100.9, -3.0
float_text(x) ==
    LET a    == IF x < 0 THEN -x ELSE x
        frac == a % 100
        ft   == IF frac % 10 = 0 THEN <<Digits[(frac \div 10) + 1]>>
                ELSE <<Digits[(frac \div 10) + 1], Digits[(frac % 10) + 1]>>
    IN  (IF x < 0 THEN <<"-">> ELSE <<>>) \o nat_text(a \div 100) \o <<".">> \o ft

\* str(value)
py_str(v) ==
    CASE v.k = "None" -> <<"N","o","n","e">>
      [] v.k = "nan"  -> <<"n","a","n">>
      [] v.k = "str"  -> v.s
      [] OTHER        -> float_text(v.n)

---------------------------------------------------------------------------
(* Regular-expression searches and conversions of the field parser *)

\* the outcome of a call that may raise: ok = FALSE is the exception
Ok(v) == [ok |-> TRUE, val |-> v]

Raised == [ok |-> FALSE, val |-> None]

IsDateAt(t, i) ==
    /\ i + 9 <= Len(t)
    /\ \A j \in {0, 1, 2, 3, 5, 6, 8, 9} : IsDigit(t[i + j])
    /\ t[i + 4] = "-"
    /\ t[i + 7] = "-"

\* re.search(r"(\d{4}-\d{2}-\d{2})", t): group(1) of the leftmost match, or None
search_date(t) ==
    IF \E i \in 1..Len(t) : IsDateAt(t, i)
    THEN LET i == CHOOSE j \in 1..Len(t) :
                      IsDateAt(t, j) /\ \A h \in 1..(j - 1) : ~IsDateAt(t, h)
         IN  Str(SubSeq(t, i, i + 9))
    ELSE None

PriceLabel == <<"P","r","i","c","e",":">>

IsNumChar(c) == IsDigit(c) \/ c = "."

\* first index >= i that holds no whitespace (Len(t) + 1 when there is none)
RECURSIVE skip_space(_, _)
skip_space(t, i) == IF i <= Len(t) /\ IsSpace(t[i]) THEN skip_space(t, i + 1) ELSE i

\* last index of the run of [0-9.] that starts at i
RECURSIVE run_end(_, _)
run_end(t, i) == IF i + 1 <= Len(t) /\ IsNumChar(t[i + 1]) THEN run_end(t, i + 1) ELSE i

\* r"Price:\s*([0-9.]+)" matches at i
IsPriceAt(t, i) ==
    /\ i + 5 <= Len(t)
    /\ SubSeq(t, i, i + 5) = PriceLabel
    /\ LET j == skip_space(t, i + 6) IN j <= Len(t) /\ IsNumChar(t[j])

\* re.findall(r"Price:\s*([0-9.]+)", t) from index p on: the tokens, left to right
RECURSIVE findall_price_from(_, _)
findall_price_from(t, p) ==
    IF \E i \in p..Len(t) : IsPriceAt(t, i)
    THEN LET i == CHOOSE j \in p..Len(t) :
                      IsPriceAt(t, j) /\ \A h \in p..(j - 1) : ~IsPriceAt(t, h)
             b == skip_space(t, i + 6)
             e == run_end(t, b)
         IN  <<SubSeq(t, b, e)>> \o findall_price_from(t, e + 1)
    ELSE <<>>

findall_price(t) == findall_price_from(t, 1)

\* value in hundredths of a run of digits
RECURSIVE digits_val(_)
digits_val(t) ==
    IF t = <<>> THEN 0 ELSE digits_val(SubSeq(t, 1, Len(t) - 1)) * 10 + DigitVal(t[Len(t)])

\* float(text): optional sign, digits with at most one dot and at least one
\* digit, surrounding whitespace ignored; anything else is a ValueError.
\* (Exponents, "nan" and "inf" are outside the inputs of the model.)
float_of_text(t0) ==
    LET magnitude(u, d) ==
            digits_val(SubSeq(u, 1, d - 1)) * 100
                + digits_val(SubSeq(SubSeq(u, d + 1, Len(u)) \o <<"0", "0">>, 1, 2))
        unsigned(neg, u) ==
            LET dots == {i \in 1..Len(u) : u[i] = "."}
                good == /\ \A i \in 1..Len(u) : IsNumChar(u[i])
                        /\ Cardinality(dots) <= 1
                        /\ \E i \in 1..Len(u) : IsDigit(u[i])
                d    == IF dots = {} THEN Len(u) + 1 ELSE CHOOSE i \in dots : TRUE
            IN  IF good THEN Ok(Num((IF neg THEN -1 ELSE 1) * magnitude(u, d))) ELSE Raised
        signed(t) ==
            unsigned(t # <<>> /\ Head(t) = "-",
                     IF t # <<>> /\ Head(t) \in {"-", "+"} THEN Tail(t) ELSE t)
    IN  signed(strip(t0))

\* float(value): TypeError for None, the number itself for a float (NaN too)
py_float(v) ==
    CASE v.k = "None" -> Raised
      [] v.k = "nan"  -> Ok(NaN)
      [] v.k = "num"  -> Ok(v)
      [] OTHER        -> float_of_text(v.s)

\* try: float(value) / except (TypeError, ValueError): None
float_or_none(v) ==
    LET caught(r) == IF r.ok THEN r.val ELSE None IN caught(py_float(v))

\* re.search(r"(\d+)", t): the leftmost run of digits, or <<>> when none
first_int_run(t) ==
    IF \E i \in 1..Len(t) : IsDigit(t[i])
    THEN LET i == CHOOSE j \in 1..Len(t) :
                      IsDigit(t[j]) /\ \A h \in 1..(j - 1) : ~IsDigit(t[h])
             RECURSIVE dend(_)
             dend(e) == IF e + 1 <= Len(t) /\ IsDigit(t[e + 1]) THEN dend(e + 1) ELSE e
         IN  SubSeq(t, i, dend(i))
    ELSE <<>>

\* str.replace(ch, "")
RECURSIVE remove_char(_, _)
remove_char(t, ch) ==
    IF t = <<>> THEN <<>>
    ELSE (IF Head(t) = ch THEN <<>> ELSE <<Head(t)>>) \o remove_char(Tail(t), ch)

---------------------------------------------------------------------------
(* Dates *)

IsLeap(y) == (y % 4 = 0 /\ y % 100 # 0) \/ y % 400 = 0

DaysInMonth(y, m) ==
    IF m = 2 THEN (IF IsLeap(y) THEN 29 ELSE 28)
    ELSE IF m \in {4, 6, 9, 11} THEN 30 ELSE 31

\* date(y, m, d).toordinal() up to a constant: days since 1970-01-01
days_from_civil(y, m, d) ==
    LET yy  == IF m <= 2 THEN y - 1 ELSE y
        era == yy \div 400
        yoe == yy - era * 400
        mp  == IF m > 2 THEN m - 3 ELSE m + 9
        doy == (153 * mp + 2) \div 5 + d - 1
        doe == yoe * 365 + yoe \div 4 - yoe \div 100 + doy
    IN  era * 146097 + doe - 719468

AllDigits(t) == \A i \in 1..Len(t) : IsDigit(t[i])

\* datetime.strptime(str(value).strip()[:10], "%Y-%m-%d").date(), as a day
\* ordinal; a ValueError otherwise
strptime_date(v) ==
    LET failed == [ok |-> FALSE, val |-> 0]
        date(y, m, d) ==
            IF y >= 1 /\ m \in 1..12 /\ d >= 1 /\ d <= DaysInMonth(y, m)
            THEN [ok |-> TRUE, val |-> days_from_civil(y, m, d)]
            ELSE failed
        fields(ps) ==
            IF /\ Len(ps) = 3
               /\ Len(ps[1]) = 4 /\ AllDigits(ps[1])
               /\ Len(ps[2]) \in {1, 2} /\ AllDigits(ps[2])
               /\ Len(ps[3]) \in {1, 2} /\ AllDigits(ps[3])
            THEN date(digits_val(ps[1]), digits_val(ps[2]), digits_val(ps[3]))
            ELSE failed
        first10(t0) == SubSeq(t0, 1, IF Len(t0) < 10 THEN Len(t0) ELSE 10)
    IN  fields(split(first10(strip(py_str(v))), "-"))

---------------------------------------------------------------------------
(* Configuration: src/config.py, numbers in hundredths *)

ENTRY_EXIT_MIN_WIN_RATE == 8000

ENTRY_EXIT_MIN_NUM_TRADES == 600

ENTRY_PRICE_BAND_PCT_ABOVE == 100

ENTRY_PRICE_BAND_PCT_BELOW == -300

ENTRY_EXIT_MAX_PE_RATIO == 5000

ENTRY_EXIT_PROFIT_RATIO == 50

EXIT_RECENCY_DAYS == 3

\* imported by utils/entry_exit_fetcher.py from config, which does not set it;
\* the value is the one the docstring of entry_conditions states
ENTRY_SIGNAL_RECENCY_DAYS == 7

\* a key that starts with the symbol instead of the function
TRADE_DEDUP_COLUMNS_symbol_first ==
    <<"Symbol", "Function", "Signal_Date", "Signal_Type", "Interval">>

TRADE_DEDUP_COLUMNS == <<"Function", "Symbol", "Signal_Date", "Signal_Type", "Interval">>

---------------------------------------------------------------------------
(* Field Parser: src/utils/entry_exit_fetcher.py *)

TxtShort == <<"s","h","o","r","t">>

TxtLong == <<"L","o","n","g">>

TxtShortCap == <<"S","h","o","r","t">>

TxtLONG == <<"L","O","N","G">>

TxtNoExitYet == <<"N","o"," ","E","x","i","t"," ","Y","e","t">>

TxtNoExitYetLower == <<"n","o"," ","e","x","i","t"," ","y","e","t">>

TxtTrendline == <<"t","r","e","n","d","l","i","n","e">>

ColSignal == "Symbol, Signal, Signal Date/Price[$]"

ColWinRate == "Win Rate [%], History Tested, Number of Trades"

ColToday == "Today Trading Date/Price[$], Today price vs Signal"

ColInterval == "Interval, Confirmation Status"

ColTrendPulse == "TrendPulse Start/End (Date and Price($))"

ColExit == "Exit Signal Date/Price[$]"

ColCAGR == "Backtested Strategy CAGR [%]"

ColSharpe == "Backtested Strategy Sharpe Ratio"

strip_all(parts) == [i \in 1..Len(parts) |-> strip(parts[i])]

\* "Short" if "short" in text.lower() else "Long"
normalize_signal_type(t) == IF contains(lower(t), TxtShort) THEN TxtShortCap ELSE TxtLong

\* re.search(r"Price:\s*([0-9.]+)", t) then float(group(1)): None without a
\* match, the ValueError of float() is not caught
price_of(t) ==
    LET first(found) == IF found = <<>> THEN Ok(None) ELSE float_of_text(found[1])
    IN  first(findall_price(t))

parse_signal_column(value) ==
    LET result == [Symbol |-> None, Signal_Type |-> None,
                   Signal_Date |-> None, Signal_Price |-> None]
        parsed(parts, date_price_part, price) ==
            IF ~price.ok THEN Raised
            ELSE Ok([Symbol |-> Str(parts[1]),
                     Signal_Type |-> Str(normalize_signal_type(strip(parts[2]))),
                     Signal_Date |-> search_date(date_price_part),
                     Signal_Price |-> price.val])
        date_price(parts, date_price_part) ==
            parsed(parts, date_price_part, price_of(date_price_part))
        of_parts(parts) ==
            IF Len(parts) < 3 THEN Ok(result)
            ELSE date_price(parts, strip(join(SubSeq(parts, 3, Len(parts)), ",")))
    IN  IF ~IsStr(value) THEN Ok(result) ELSE of_parts(strip_all(split(value.s, ",")))

\* returns <<win_rate, num_trades>>
parse_win_rate_and_trades(value) ==
    LET trades(run) == IF run = <<>> THEN None ELSE Num(digits_val(run) * 100)
        of_parts(parts) ==
            IF Len(parts) < 3 THEN <<None, None>>
            ELSE << float_or_none(Str(strip(remove_char(parts[1], "%")))),
                    trades(first_int_run(parts[Len(parts)])) >>
    IN  IF ~IsStr(value) THEN <<None, None>> ELSE of_parts(strip_all(split(value.s, ",")))

\* r"([0-9.]+)\s*% ?" matches at i
IsPctAt(t, i) ==
    /\ i <= Len(t)
    /\ IsNumChar(t[i])
    /\ LET j == skip_space(t, run_end(t, i) + 1) IN j <= Len(t) /\ t[j] = "%"

\* returns Ok(<<today_price, pct_diff, signed_pct>>); float() may raise
parse_today_vs_signal(value) ==
    LET parsed(price, pct) ==
            IF ~price.ok \/ ~pct.ok THEN Raised
            ELSE Ok(<<price.val,
                      IF IsNum(pct.val) /\ pct.val.n < 0 THEN Num(-pct.val.n) ELSE pct.val,
                      pct.val>>)
        pct_of(t) ==
            IF \E i \in 1..Len(t) : IsPctAt(t, i)
            THEN LET i == CHOOSE j \in 1..Len(t) :
                              IsPctAt(t, j) /\ \A h \in 1..(j - 1) : ~IsPctAt(t, h)
                 IN  float_of_text(SubSeq(t, i, run_end(t, i)))
            ELSE Ok(None)
    IN  IF ~IsStr(value) THEN Ok(<<None, None, None>>)
        ELSE parsed(price_of(value.s), pct_of(value.s))

\* returns <<start_price, end_price>>
parse_trendpulse_start_end(value) ==
    LET both(a, b) == IF a.ok /\ b.ok THEN <<a.val, b.val>> ELSE <<None, None>>
        of_prices(prices) ==
            IF Len(prices) < 2 THEN <<None, None>>
            ELSE both(float_of_text(prices[1]), float_of_text(prices[2]))
    IN  IF ~IsStr(value) \/ strip(value.s) = <<>> THEN <<None, None>>
        ELSE of_prices(findall_price(value.s))

parse_interval(value) ==
    IF ~IsStr(value) THEN Str(<<>>) ELSE Str(strip(split(value.s, ",")[1]))

---------------------------------------------------------------------------
(* Record Normalizer *)

get_trade_dedup_key_from_record(record) ==
    LET part(col) ==
            LET val == strip(py_str(Get(record, col, Str(<<>>))))
            IN  IF col = "Signal_Type" THEN normalize_signal_type(val) ELSE val
    IN  Str(join([i \in 1..Len(TRADE_DEDUP_COLUMNS) |-> part(TRADE_DEDUP_COLUMNS[i])], "|"))

\* f"{win_rate:.2f}%" if win_rate is not None else ""
win_rate_display(win_rate) ==
    CASE win_rate.k = "None" -> Str(<<>>)
      [] win_rate.k = "nan"  -> Str(<<"n","a","n","%">>)
      [] OTHER -> LET a == IF win_rate.n < 0 THEN -win_rate.n ELSE win_rate.n
                  IN  Str((IF win_rate.n < 0 THEN <<"-">> ELSE <<>>)
                          \o nat_text(a \div 100) \o <<".">>
                          \o <<Digits[((a % 100) \div 10) + 1], Digits[(a % 10) + 1]>> \o <<"%">>)

\* float(str(x).replace("%", "")) if x not in (None, "") else None, ValueError -> None
strategy_cagr_of(x) ==
    IF x = None \/ x = Str(<<>>) THEN None
    ELSE IF x.k = "nan" THEN NaN
    ELSE float_or_none(Str(remove_char(py_str(x), "%")))

\* Exit_Date / Exit_Price of build_standard_record: Ok(<<date, price>>)
exit_fields_of(exit_raw) ==
    LET parsed(price) ==
            IF price.ok THEN Ok(<<search_date(exit_raw.s), price.val>>) ELSE Raised
    IN  IF IsStr(exit_raw) /\ exit_raw.s # <<>> /\ ~contains(exit_raw.s, TxtNoExitYet)
        THEN parsed(price_of(exit_raw.s))
        ELSE Ok(<<None, None>>)

\* Ok(record), or Raised when a float() of a Price: or percent token raises
build_standard_record(row, function_name) ==
    LET keyed(record) ==
            record @@ ("Dedup_Key" :> get_trade_dedup_key_from_record(record))
        built(signal_info, wr_nt, today_info, start_end, exit_info) ==
            IF ~signal_info.ok \/ ~today_info.ok \/ ~exit_info.ok THEN Raised
            ELSE Ok(keyed(
                   [Symbol |-> signal_info.val.Symbol,
                    Signal_Type |-> signal_info.val.Signal_Type,
                    Signal_Date |-> signal_info.val.Signal_Date,
                    Signal_Price |-> signal_info.val.Signal_Price,
                    Win_Rate |-> wr_nt[1],
                    Number_Of_Trades |-> wr_nt[2],
                    Win_Rate_Display |-> win_rate_display(wr_nt[1]),
                    Today_Price |-> today_info.val[1],
                    Today_vs_Signal_Pct |-> today_info.val[2],
                    Today_vs_Signal_Pct_Signed |-> today_info.val[3],
                    Exit_Signal_Raw |-> Get(row, ColExit, Str(<<>>)),
                    Function |-> Str(function_name),
                    Interval |-> parse_interval(Get(row, ColInterval, Str(<<>>))),
                    PE_Ratio |-> float_or_none(Get(row, "PE_Ratio", None)),
                    Industry_PE |-> float_or_none(Get(row, "Industry_PE", None)),
                    Last_Quarter_Profit |-> float_or_none(Get(row, "Last_Quarter_Profit", None)),
                    Last_Year_Same_Quarter_Profit |->
                        float_or_none(Get(row, "Last_Year_Same_Quarter_Profit", None)),
                    Strategy_CAGR |-> strategy_cagr_of(Get(row, ColCAGR, None)),
                    Strategy_Sharpe |-> float_or_none(Get(row, ColSharpe, None)),
                    TrendPulse_Start_End |-> Get(row, ColTrendPulse, Str(<<>>)),
                    TrendPulse_Start_Price |-> start_end[1],
                    TrendPulse_End_Price |-> start_end[2],
                    Raw_Data |-> row,
                    Exit_Date |-> exit_info.val[1],
                    Exit_Price |-> exit_info.val[2]]))
    IN  built(parse_signal_column(Get(row, ColSignal, Str(<<>>))),
              parse_win_rate_and_trades(Get(row, ColWinRate, Str(<<>>))),
              parse_today_vs_signal(Get(row, ColToday, Str(<<>>))),
              parse_trendpulse_start_end(Get(row, ColTrendPulse, Str(<<>>))),
              exit_fields_of(Get(row, ColExit, Str(<<>>))))

---------------------------------------------------------------------------
(* Entry/Exit Classifier *)

\* float comparisons: every comparison with NaN is False
Le(a, b) == IsNum(a) /\ IsNum(b) /\ a.n <= b.n

\* a comparison that lets equal values through
Ge(a, b) == IsNum(a) /\ IsNum(b) /\ a.n >= b.n

Gt(a, b) == IsNum(a) /\ IsNum(b) /\ a.n > b.n

Lt(a, b) == IsNum(a) /\ IsNum(b) /\ a.n < b.n

\* long_only without its test: every signal type passes
signal_type_ignored(record) == TRUE

\* str(record.get("Signal_Type", "")).strip().upper() != "LONG" -> return False
long_only(record) ==
    upper(strip(py_str(Get(record, "Signal_Type", Str(<<>>))))) = TxtLONG

\* signal_recent with the window closed one day earlier: a signal exactly
\* ENTRY_SIGNAL_RECENCY_DAYS old is rejected
signal_recent_strict(record, today_) ==
    LET recent(signal_dt) ==
            /\ signal_dt.ok
            /\ ~(\/ today_ - signal_dt.val >= ENTRY_SIGNAL_RECENCY_DAYS
                 \/ today_ - signal_dt.val < 0)
    IN  /\ Truthy(Get(record, "Signal_Date", None))
        /\ recent(strptime_date(Get(record, "Signal_Date", None)))

\* Signal_Date present, parseable, 0 <= today - Signal_Date <= ENTRY_SIGNAL_RECENCY_DAYS
signal_recent(record, today_) ==
    LET recent(signal_dt) ==
            /\ signal_dt.ok
            /\ ~(\/ today_ - signal_dt.val > ENTRY_SIGNAL_RECENCY_DAYS
                 \/ today_ - signal_dt.val < 0)
    IN  /\ Truthy(Get(record, "Signal_Date", None))
        /\ recent(strptime_date(Get(record, "Signal_Date", None)))

\* win_rate / num_trades not None, win_rate > min, num_trades > min
win_rate_and_trades_ok(record) ==
    LET win_rate   == Get(record, "Win_Rate", None)
        num_trades == Get(record, "Number_Of_Trades", None)
    IN  /\ ~(win_rate = None \/ num_trades = None)
        /\ ~Le(win_rate, Num(ENTRY_EXIT_MIN_WIN_RATE))
        /\ ~Le(num_trades, Num(ENTRY_EXIT_MIN_NUM_TRADES))

exit_raw_lower(record) == lower(strip(py_str(Get(record, "Exit_Signal_Raw", Str(<<>>)))))

\* entry: "no exit yet" in exit_raw
no_exit_yet(record) == contains(exit_raw_lower(record), TxtNoExitYetLower)

\* exit: exit_raw non-empty and without "no exit yet"
exit_signal_present(record) ==
    LET present(exit_raw) == ~(exit_raw = <<>> \/ contains(exit_raw, TxtNoExitYetLower))
    IN  present(exit_raw_lower(record))

\* pct_ge with the bound itself let through: pct_diff > bound
pct_gt(price_now, signal_price, bound) ==
    IsNum(price_now) /\ IsNum(signal_price)
        /\ (price_now.n - signal_price.n) * 10000 > bound * signal_price.n

\* pct_diff = (price_now - signal_price) / signal_price * 100.0 compared with
\* a bound given in hundredths, for signal_price > 0, in exact arithmetic
pct_ge(price_now, signal_price, bound) ==
    IsNum(price_now) /\ IsNum(signal_price)
        /\ (price_now.n - signal_price.n) * 10000 >= bound * signal_price.n

pct_le(price_now, signal_price, bound) ==
    IsNum(price_now) /\ IsNum(signal_price)
        /\ (price_now.n - signal_price.n) * 10000 <= bound * signal_price.n

price_band_ok(record) ==
    LET in_band(price_now, signal_price) ==
            /\ price_now.ok /\ signal_price.ok
            /\ ~Le(signal_price.val, Num(0))
            /\ ~(\/ pct_ge(price_now.val, signal_price.val, ENTRY_PRICE_BAND_PCT_ABOVE)
                 \/ pct_le(price_now.val, signal_price.val, ENTRY_PRICE_BAND_PCT_BELOW))
    IN  /\ ~(\/ Get(record, "Today_Price", None) = None
             \/ Get(record, "Signal_Price", None) = None)
        /\ in_band(py_float(Get(record, "Today_Price", None)),
                   py_float(Get(record, "Signal_Price", None)))

\* pe_ok without its None test: a record that lacks a ratio passes
pe_ok_lenient(record) ==
    LET pe_ratio    == Get(record, "PE_Ratio", None)
        industry_pe == Get(record, "Industry_PE", None)
    IN  \/ pe_ratio = None \/ industry_pe = None
        \/ (Gt(industry_pe, pe_ratio) /\ Lt(pe_ratio, Num(ENTRY_EXIT_MAX_PE_RATIO)))

pe_ok(record) ==
    LET pe_ratio    == Get(record, "PE_Ratio", None)
        industry_pe == Get(record, "Industry_PE", None)
    IN  /\ ~(pe_ratio = None \/ industry_pe = None)
        /\ Gt(industry_pe, pe_ratio)
        /\ Lt(pe_ratio, Num(ENTRY_EXIT_MAX_PE_RATIO))

\* last_q > ENTRY_EXIT_PROFIT_RATIO * last_year_q
profit_ok(record) ==
    LET last_q      == Get(record, "Last_Quarter_Profit", None)
        last_year_q == Get(record, "Last_Year_Same_Quarter_Profit", None)
    IN  /\ ~(last_q = None \/ last_year_q = None)
        /\ IsNum(last_q) /\ IsNum(last_year_q)
        /\ last_q.n * 100 > ENTRY_EXIT_PROFIT_RATIO * last_year_q.n

\* the TrendPulse rule applied whatever the Function of the record
trendpulse_any_function(record) ==
    /\ IsNum(Get(record, "TrendPulse_Start_Price", None))
    /\ IsNum(Get(record, "TrendPulse_End_Price", None))
    /\ Get(record, "TrendPulse_Start_Price", None).n
           > Get(record, "TrendPulse_End_Price", None).n

trendpulse_ok(record) ==
    lower(py_str(Get(record, "Function", Str(<<>>)))) = TxtTrendline
    => LET start_price == Get(record, "TrendPulse_Start_Price", None)
           end_price   == Get(record, "TrendPulse_End_Price", None)
       IN  /\ ~(start_price = None \/ end_price = None)
           /\ Gt(start_price, end_price)

\* Exit_Date present, parseable, (fetch_date - Exit_Date).days <= EXIT_RECENCY_DAYS
exit_recent(record, fetch_date) ==
    LET recent(exit_dt) ==
            exit_dt.ok /\ ~(fetch_date - exit_dt.val > EXIT_RECENCY_DAYS)
    IN  /\ Truthy(Get(record, "Exit_Date", None))
        /\ recent(strptime_date(Get(record, "Exit_Date", None)))

exit_price_present(record) == Get(record, "Exit_Price", None) # None

\* src/utils/entry_exit_fetcher.py: the fetch date is date.today() of the call
entry_conditions(record, today_) ==
    /\ long_only(record)
    /\ signal_recent(record, today_)
    /\ win_rate_and_trades_ok(record)
    /\ no_exit_yet(record)
    /\ price_band_ok(record)
    /\ pe_ok(record)
    /\ profit_ok(record)
    /\ trendpulse_ok(record)

\* src/entry_exit_fetcher.py: the older entry rule, without signal recency
root_entry_conditions(record) ==
    /\ long_only(record)
    /\ win_rate_and_trades_ok(record)
    /\ no_exit_yet(record)
    /\ price_band_ok(record)
    /\ pe_ok(record)
    /\ profit_ok(record)
    /\ trendpulse_ok(record)

exit_conditions(record, fetch_date) ==
    /\ long_only(record)
    /\ win_rate_and_trades_ok(record)
    /\ exit_signal_present(record)
    /\ exit_recent(record, fetch_date)
    /\ exit_price_present(record)
    /\ pe_ok(record)
    /\ profit_ok(record)
    /\ trendpulse_ok(record)

---------------------------------------------------------------------------
(* Persistence: pandas to_csv / read_csv.  A file is missing, zero-length or *)
(* a table; a table row maps each column to the text of its cell.           *)

MissingFile == [kind |-> "missing", rows |-> <<>>]

ZeroLengthFile == [kind |-> "zero", rows |-> <<>>]

Table(rows) == [kind |-> "table", rows |-> rows]

\* texts read_csv turns into NaN (pandas' default na_values, those of interest)
NaTexts == { <<>>, <<"n","a","n">>, <<"N","a","N">>, <<"N","A">>, <<"N","/","A">>, <<"n","/","a">>, <<"N","o","n","e">>, <<"n","u","l","l">>, <<"N","U","L","L">> }

\* DataFrame.to_csv: None and NaN are written as an empty cell, a float by its repr
to_csv_cell(v) ==
    CASE v.k \in {"None", "nan"} -> <<>>
      [] v.k = "str"             -> v.s
      [] OTHER                   -> float_text(v.n)

\* read_csv infers a numeric column when every cell that is not NA is a number
column_is_numeric(rows, col) ==
    \A i \in 1..Len(rows) : rows[i][col] \in NaTexts \/ float_of_text(rows[i][col]).ok

read_csv_cell(text, numeric) ==
    IF text \in NaTexts THEN NaN
    ELSE IF numeric THEN float_of_text(text).val
    ELSE Str(text)

\* pd.read_csv(path).to_dict(orient="records")
read_csv(file) ==
    IF file.rows = <<>> THEN <<>>
    ELSE LET numeric == {col \in DOMAIN file.rows[1] : column_is_numeric(file.rows, col)}
         IN  [i \in 1..Len(file.rows) |->
                 [col \in DOMAIN file.rows[i] |->
                     read_csv_cell(file.rows[i][col], col \in numeric)]]

\* a loader that reads a zero-length file as one blank line
load_csv_blank_line(file) ==
    IF file.kind = "table" THEN read_csv(file)
    ELSE IF file.kind = "zero" THEN <<[c \in {"Symbol", "Dedup_Key"} |-> NaN]>>
    ELSE <<>>

\* load_existing_csv: an empty frame for a missing, zero-length or row-less file
load_existing_csv(file) == IF file.kind = "table" THEN read_csv(file) ELSE <<>>

CoreColumns ==
    {"Symbol", "Signal_Type", "Signal_Date", "Signal_Price", "Win_Rate",
     "Number_Of_Trades", "Win_Rate_Display", "Today_Price", "Exit_Signal_Raw",
     "Function", "Interval", "PE_Ratio", "Industry_PE", "Last_Quarter_Profit",
     "Last_Year_Same_Quarter_Profit", "Strategy_CAGR", "Strategy_Sharpe",
     "TrendPulse_Start_End", "TrendPulse_Start_Price", "TrendPulse_End_Price",
     "Exit_Date", "Exit_Price", "Dedup_Key"}

\* code points order of the characters of the model
CharOrder == <<" ", "%", "(", ")", ",", "-", ".", "/">> \o Digits \o <<":">>
             \o UpperAlpha \o LowerAlpha \o <<"|">>

CharRank(c) == CHOOSE i \in 1..Len(CharOrder) : CharOrder[i] = c

RECURSIVE text_lt(_, _)
text_lt(a, b) ==
    IF b = <<>> THEN FALSE
    ELSE IF a = <<>> THEN TRUE
    ELSE IF Head(a) = Head(b) THEN text_lt(Tail(a), Tail(b))
    ELSE CharRank(Head(a)) < CharRank(Head(b))

IsNA(v) == v.k \in {"None", "nan"}

\* df.sort_values(by="Signal_Date", ascending=False, na_position="last"):
\* newest first, equal dates in their given order, NA last in their given order
RECURSIVE insert_desc(_, _)
insert_desc(sorted, rec) ==
    IF sorted = <<>> THEN <<rec>>
    ELSE IF text_lt(py_str(Head(sorted)["Signal_Date"]), py_str(rec["Signal_Date"]))
         THEN <<rec>> \o sorted
         ELSE <<Head(sorted)>> \o insert_desc(Tail(sorted), rec)

RECURSIVE sort_desc(_)
sort_desc(recs) ==
    IF recs = <<>> THEN <<>>
    ELSE insert_desc(sort_desc(SubSeq(recs, 1, Len(recs) - 1)), recs[Len(recs)])

sort_by_signal_date(recs) ==
    sort_desc(SelectSeq(recs, LAMBDA r : ~IsNA(r["Signal_Date"])))
        \o SelectSeq(recs, LAMBDA r : IsNA(r["Signal_Date"]))

\* a save that keeps every column of the frame but Raw_Data
frame_columns_not_core(records) ==
    UNION {DOMAIN records[i] : i \in 1..Len(records)} \ {"Raw_Data"}

\* the columns of pd.DataFrame(records) that save keeps
frame_columns(records) ==
    CoreColumns \cap UNION {DOMAIN records[i] : i \in 1..Len(records)}

\* one frame row: a key the record lacks is NaN
frame_row(rec, cols) == [c \in cols |-> Get(rec, c, NaN)]

to_csv(frame) ==
    Table([i \in 1..Len(frame) |-> [c \in DOMAIN frame[i] |-> to_csv_cell(frame[i][c])]])

\* utils/all_signals_fetcher.save_records_to_csv: the file it writes
save_records_to_csv(records) ==
    IF records = <<>> THEN Table(<<>>)
    ELSE LET cols  == frame_columns(records)
             frame == [i \in 1..Len(records) |-> frame_row(records[i], cols)]
         IN  to_csv(IF "Signal_Date" \in cols THEN sort_by_signal_date(frame) ELSE frame)

\* utils/entry_exit_fetcher.save_records_to_csv: the same columns, not sorted
save_potential_records_to_csv(records) ==
    IF records = <<>> THEN Table(<<>>)
    ELSE LET cols == frame_columns(records)
         IN  to_csv([i \in 1..Len(records) |-> frame_row(records[i], cols)])

---------------------------------------------------------------------------
(* Inputs of the model: source rows as pd.read_csv gives them *)

MaxRuns == 2

MaxDays == 2

FirstDay == days_from_civil(2026, 2, 10)

SourceRow(sig, win, today_cell, interval, exit_cell, pe, ipe, lq, lyq) ==
    (ColSignal :> sig) @@ (ColWinRate :> win) @@ (ColToday :> today_cell)
        @@ (ColInterval :> interval) @@ (ColExit :> exit_cell)
        @@ ("PE_Ratio" :> pe) @@ ("Industry_PE" :> ipe)
        @@ ("Last_Quarter_Profit" :> lq) @@ ("Last_Year_Same_Quarter_Profit" :> lyq)
        @@ (ColCAGR :> Str(<<"2","4",".","3","4","%">>)) @@ (ColSharpe :> Num(120))

TxtWin == <<"9","2",".","3","1","%",","," ","P","a","s","t"," ","4"," ","y","e","a","r","s",","," ","1","3">>

TxtTodayCell == <<"2","0","2","6","-","0","2","-","1","0"," ","(","P","r","i","c","e",":"," ","1","0","0",".","9",")",","," ","0",".","9","%"," ","a","b","o","v","e">>

TxtDaily == <<"D","a","i","l","y",","," ","i","s"," ","C","O","N","F","I","R","M","E","D">>

\* an open LONG signal that meets every entry rule
RowOpen ==
    SourceRow(Str(<<"A","A","A",","," ","L","o","n","g",","," ","2","0","2","6","-","0","2","-","0","9"," ","(","P","r","i","c","e",":"," ","1","0","0",".","0",")">>), Str(TxtWin), Str(TxtTodayCell),
              Str(TxtDaily), Str(TxtNoExitYet), Num(1500), Num(2000), Num(12000), Num(20000))

\* the same trade seen later: closed, and with another win rate
RowClosed ==
    SourceRow(Str(<<"A","A","A",","," ","L","o","n","g",","," ","2","0","2","6","-","0","2","-","0","9"," ","(","P","r","i","c","e",":"," ","1","0","0",".","0",")">>), Str(<<"8","8",".","0","%",","," ","P","a","s","t"," ","4"," ","y","e","a","r","s",","," ","1","4">>),
              Str(<<"2","0","2","6","-","0","2","-","1","1"," ","(","P","r","i","c","e",":"," ","1","0","4",".","0",")",","," ","4",".","0","%"," ","a","b","o","v","e">>), Str(TxtDaily),
              Str(<<"2","0","2","6","-","0","2","-","1","1"," ","(","P","r","i","c","e",":"," ","1","0","4",".","0",")">>), Num(1500), Num(2000), Num(12000), Num(20000))

\* a signal cell without a date: Signal_Date is None
RowNoDate ==
    SourceRow(Str(<<"B","B","B",","," ","L","o","n","g",","," ","(","P","r","i","c","e",":"," ","5","0",".","0",")">>), Str(TxtWin), Str(<<"2","0","2","6","-","0","2","-","1","0"," ","(","P","r","i","c","e",":"," ","5","0",".","2",")">>),
              Str(TxtDaily), Str(TxtNoExitYet), Num(1500), Num(2000), Num(12000), Num(20000))

\* a win-rate cell whose percentage is no number: Win_Rate is None
RowNoWinRate ==
    SourceRow(Str(<<"C","C","C",","," ","L","o","n","g",","," ","2","0","2","6","-","0","2","-","0","8"," ","(","P","r","i","c","e",":"," ","1","0","0",".","0",")">>), Str(<<"N","/","A",","," ","P","a","s","t"," ","4"," ","y","e","a","r","s",","," ","1","3">>),
              Str(TxtTodayCell), Str(TxtDaily), Str(TxtNoExitYet),
              Num(1500), Num(2000), Num(12000), Num(20000))

\* a Price: token of digits and dots that is no number: float() raises
RowBadPrice ==
    SourceRow(Str(<<"D","D","D",","," ","L","o","n","g",","," ","2","0","2","6","-","0","2","-","0","9"," ","(","P","r","i","c","e",":"," ","1",".","2",".","3",")">>), Str(TxtWin), Str(TxtTodayCell),
              Str(TxtDaily), Str(TxtNoExitYet), Num(1500), Num(2000), Num(12000), Num(20000))

\* an open LONG signal ENTRY_SIGNAL_RECENCY_DAYS old on the first day of the model
RowAging ==
    SourceRow(Str(<<"F","F","F",","," ","L","o","n","g",","," ","2","0","2","6","-","0","2","-","0","3"," ","(","P","r","i","c","e",":"," ","1","0","0",".","0",")">>), Str(TxtWin), Str(TxtTodayCell),
              Str(TxtDaily), Str(TxtNoExitYet), Num(1500), Num(2000), Num(12000), Num(20000))

\* a Trendline row: a SHORT signal with the TrendPulse column, blank fundamentals
RowTrend ==
    SourceRow(Str(<<"E","E","E",","," ","S","h","o","r","t",","," ","2","0","2","6","-","0","2","-","0","7"," ","(","P","r","i","c","e",":"," ","2","0",".","0",")">>), Str(TxtWin),
              Str(<<"2","0","2","6","-","0","2","-","1","0"," ","(","P","r","i","c","e",":"," ","1","9",".","5",")",","," ","2",".","5","%"," ","b","e","l","o","w">>), NaN, Str(TxtNoExitYet),
              NaN, NaN, NaN, NaN)
        @@ (ColTrendPulse :> Str(<<"2","0","2","5","-","1","2","-","1","8"," ","(","P","r","i","c","e",":"," ","2","0","0",".","9","5",")","/","2","0","2","6","-","0","2","-","0","9"," ","(","P","r","i","c","e",":"," ","1","6","9",".","4","8",")">>))

\* the Distance / Trendline files a run may find; "none" is no dated file
DistanceTables ==
    [none |-> <<>>, open |-> <<RowOpen>>, closed |-> <<RowClosed>>,
     nodate |-> <<RowNoDate>>, nowin |-> <<RowNoWinRate, RowOpen>>, bad |-> <<RowBadPrice>>,
     aging |-> <<RowAging>>]

TrendTables == [none |-> <<>>, trend |-> <<RowTrend>>]

\* stock_data/INDIA as fetch_current_price_yfinance sees it: symbol -> Close
Markets ==
    [closed |-> [sym \in {} |-> None],
     open   |-> (<<"A","A","A">> :> Num(10050)) @@ (<<"C","C","C">> :> Num(10019))]

fetch_current_price_yfinance(market, symbol) ==
    IF symbol \in DOMAIN market THEN market[symbol] ELSE None

---------------------------------------------------------------------------
(* Ledger build: src/utils/all_signals_fetcher.py *)

\* the three output artifacts
Files == [ledger |-> all_signals_csv, entry |-> potential_entry_csv,
          exit |-> potential_exit_csv]

TxtDistance == <<"D","i","s","t","a","n","c","e">>

TxtTrendlineCap == <<"T","r","e","n","d","l","i","n","e">>

\* merged_by_key[key] = rec on an insertion-ordered dict, kept as a sequence
dict_set(d, key, rec) ==
    IF \E i \in 1..Len(d) : d[i].key = key
    THEN [i \in 1..Len(d) |-> IF d[i].key = key THEN [key |-> key, rec |-> rec] ELSE d[i]]
    ELSE Append(d, [key |-> key, rec |-> rec])

\* for rec in existing_df.to_dict(orient="records"): re-keyed from its fields
RECURSIVE merge_existing(_, _)
merge_existing(d, recs) ==
    IF recs = <<>> THEN d
    ELSE merge_existing(dict_set(d, get_trade_dedup_key_from_record(Head(recs)), Head(recs)),
                        Tail(recs))

\* for rec in new_records: keyed by the Dedup_Key it carries
RECURSIVE merge_new(_, _)
merge_new(d, recs) ==
    IF recs = <<>> THEN d
    ELSE merge_new(dict_set(d, Head(recs)["Dedup_Key"], Head(recs)), Tail(recs))

\* list(merged_by_key.values())
dict_values(d) == [i \in 1..Len(d) |-> d[i].rec]

merge_records(existing, new_records) ==
    dict_values(merge_new(merge_existing(<<>>, existing), new_records))

\* a refresh that blanks the price of a row it cannot look up
refreshed_price_or_none(row, symbol, price) ==
    IF symbol = <<>> \/ price = None THEN None ELSE price

\* the Today_Price a refresh gives a row: the price found, else the one it had
refreshed_price(row, symbol, price) ==
    IF symbol = <<>> \/ price = None THEN Get(row, "Today_Price", None) ELSE price

\* the file update_today_prices_for_all_signals leaves
update_today_prices_for_all_signals(file, market) ==
    LET price_of_symbol(row, symbol) ==
            refreshed_price(row, symbol, fetch_current_price_yfinance(market, symbol))
        price_of_row(row) ==
            price_of_symbol(row, strip(py_str(Get(row, "Symbol", Str(<<>>)))))
        updated(df) ==
            IF df = <<>> \/ "Symbol" \notin DOMAIN df[1] THEN file
            ELSE to_csv([i \in 1..Len(df) |->
                            [c \in (DOMAIN df[1] \cup {"Today_Price"}) \ {"Current_Price"} |->
                                IF c = "Today_Price" THEN price_of_row(df[i]) ELSE df[i][c]]])
    IN  IF file.kind # "table" THEN file ELSE updated(read_csv(file))

\* build_standard_record over the rows of the tables found, Distance first
build_all(dist, trend) ==
    [i \in 1..(Len(dist) + Len(trend)) |->
        IF i <= Len(dist) THEN build_standard_record(dist[i], TxtDistance)
        ELSE build_standard_record(trend[i - Len(dist)], TxtTrendlineCap)]

\* the records of every pair of source files of the model
BuiltRecords ==
    [d \in DOMAIN DistanceTables, t \in DOMAIN TrendTables |->
        build_all(DistanceTables[d], TrendTables[t])]

\* a build that wants both source files
one_source_file_missing(d, t) == d = "none" \/ t = "none"

\* if distance_path is None and trend_path is None: raise FileNotFoundError
no_source_files(d, t) == d = "none" /\ t = "none"

\* main(): one run with the given source files and stock data
all_signals_main(d, t, m) ==
    LET values(built) == [i \in 1..Len(built) |-> built[i].val]
        raises(built) ==
            no_source_files(d, t) \/ \E i \in 1..Len(built) : ~built[i].ok
        price_update(saved, refreshed) ==
            /\ all_signals_csv' = refreshed
            /\ last_refresh' =
                   [op |-> "update_today_prices_for_all_signals", market |-> m,
                    outcome |-> "ok",
                    before |-> [Files EXCEPT !.ledger = saved],
                    after |-> [Files EXCEPT !.ledger = refreshed]]
        save(saved) ==
            price_update(saved, update_today_prices_for_all_signals(saved, Markets[m]))
        run(fails, new_records) ==
            /\ IF fails THEN UNCHANGED <<bought_vars, all_signals_csv, last_refresh>>
               ELSE save(save_records_to_csv(
                             merge_records(load_existing_csv(all_signals_csv), new_records)))
            /\ last_run' = [outcome |-> IF fails THEN "raised" ELSE "ok",
                            sources |-> <<d, t>>,
                            before  |-> all_signals_csv,
                            new_records |-> IF fails THEN <<>> ELSE new_records,
                            repeat  |-> last_run.outcome = "ok" /\ last_run.sources = <<d, t>>]
        outcome(built) == run(raises(built), values(built))
    IN  /\ runs < MaxRuns
        /\ runs' = runs + 1
        /\ outcome(BuiltRecords[d, t])
        /\ UNCHANGED <<bought_vars, potential_entry_csv, potential_exit_csv, today, eval_vars,
                       classify_vars, last_fault, parse_vars>>

---------------------------------------------------------------------------
(* Classifier run: main() of src/utils/entry_exit_fetcher.py and of the    *)
(* older src/entry_exit_fetcher.py, which work on the same three files     *)

\* if not rec.get("Dedup_Key"): rec["Dedup_Key"] = get_trade_dedup_key_from_record(rec)
ensure_dedup_key(rec) ==
    IF Truthy(Get(rec, "Dedup_Key", None)) THEN rec
    ELSE ("Dedup_Key" :> get_trade_dedup_key_from_record(rec)) @@ rec

all_records_of(file) ==
    LET keyed(df) == [i \in 1..Len(df) |-> ensure_dedup_key(df[i])]
    IN  keyed(load_existing_csv(file))

entry_records_of(all_records, today_) ==
    SelectSeq(all_records, LAMBDA record : entry_conditions(record, today_))

exit_records_of(all_records, fetch_date) ==
    SelectSeq(all_records, LAMBDA record : exit_conditions(record, fetch_date))

NoClassify ==
    [module |-> "none", ledger |-> MissingFile, entry_date |-> 0, fetch_date |-> 0,
     entry_before |-> MissingFile, entry |-> MissingFile, exit |-> MissingFile]

\* a run that wrote both lists; tick = 1 when midnight passes between the
\* evaluation of the entries and fetch_date = date.today() of the exit part
classified(module, tick, entry_file, exit_file) ==
    /\ potential_entry_csv' = entry_file
    /\ potential_exit_csv' = exit_file
    /\ today' = today + tick
    /\ prev_classify' = last_classify
    /\ last_classify' =
           [module |-> module, ledger |-> all_signals_csv, entry_date |-> today,
            fetch_date |-> today + tick, entry_before |-> potential_entry_csv,
            entry |-> entry_file, exit |-> exit_file]

\* an empty ledger raises FileNotFoundError before anything is written;
\* entry_conditions reads date.today() at each call, before main() does
entry_exit_main(tick) ==
    LET classify(all_records) ==
            IF all_records = <<>>
            THEN UNCHANGED <<bought_vars,
                             potential_entry_csv, potential_exit_csv, today, classify_vars>>
            ELSE classified("utils", tick,
                     save_potential_records_to_csv(entry_records_of(all_records, today)),
                     save_potential_records_to_csv(
                         exit_records_of(all_records, today + tick)))
    IN  /\ today + tick <= FirstDay + MaxDays
        /\ classify(all_records_of(all_signals_csv))
        /\ UNCHANGED <<bought_vars, all_signals_csv, runs, last_run, eval_vars, last_fault,
                       last_refresh, parse_vars>>

\* the older module's key: "SHORT" if "SHORT" in val.upper() else "LONG"
root_get_trade_dedup_key_from_record(record) ==
    LET part(col) ==
            LET val == strip(py_str(Get(record, col, Str(<<>>))))
            IN  IF col = "Signal_Type"
                THEN (IF contains(upper(val), <<"S","H","O","R","T">>) THEN <<"S","H","O","R","T">> ELSE TxtLONG)
                ELSE val
    IN  Str(join([i \in 1..Len(TRADE_DEDUP_COLUMNS) |-> part(TRADE_DEDUP_COLUMNS[i])], "|"))

\* page_functions/monitored_signals.py: 'SHORT' if 'SHORT' in val.upper() else 'LONG'
get_trade_dedup_key(signal_data) ==
    LET part(col) ==
            LET val == strip(py_str(Get(signal_data, col, Str(<<>>))))
            IN  IF col = "Signal_Type"
                THEN (IF contains(upper(val), <<"S","H","O","R","T">>) THEN <<"S","H","O","R","T">> ELSE TxtLONG)
                ELSE val
    IN  Str(join([i \in 1..Len(TRADE_DEDUP_COLUMNS) |-> part(TRADE_DEDUP_COLUMNS[i])], "|"))

\* old_code/update_monitored_from_signals.py: str(record.get(col, "") or "").strip()
build_dedup_key(record) ==
    LET part(col) ==
            LET val == IF Truthy(Get(record, col, Str(<<>>)))
                       THEN strip(py_str(Get(record, col, Str(<<>>))))
                       ELSE <<>>
            IN  IF col = "Signal_Type"
                THEN (IF contains(upper(val), <<"S","H","O","R","T">>) THEN <<"S","H","O","R","T">> ELSE TxtLONG)
                ELSE val
    IN  Str(join([i \in 1..Len(TRADE_DEDUP_COLUMNS) |-> part(TRADE_DEDUP_COLUMNS[i])], "|"))

\* page_functions/potential_signals._generate_dedup_key and
\* utils/update_bought_trades.get_trade_dedup_key_from_record:
\* "Short" if "short" in val.lower() else "Long"
generate_dedup_key(record) ==
    LET part(col) ==
            LET val == strip(py_str(Get(record, col, Str(<<>>))))
            IN  IF col = "Signal_Type"
                THEN (IF contains(lower(val), <<"s","h","o","r","t">>) THEN <<"S","h","o","r","t">> ELSE <<"L","o","n","g">>)
                ELSE val
    IN  Str(join([i \in 1..Len(TRADE_DEDUP_COLUMNS) |-> part(TRADE_DEDUP_COLUMNS[i])], "|"))

root_all_records_of(file) ==
    LET ensured(rec) ==
            IF Truthy(Get(rec, "Dedup_Key", None)) THEN rec
            ELSE ("Dedup_Key" :> root_get_trade_dedup_key_from_record(rec)) @@ rec
        keyed(df) == [i \in 1..Len(df) |-> ensured(df[i])]
    IN  keyed(load_existing_csv(file))

\* existing_entry_records: the rows potential_entry.csv holds, each re-keyed
root_existing_entry_records(file) ==
    LET rekeyed(df) ==
            [i \in 1..Len(df) |->
                ("Dedup_Key" :> root_get_trade_dedup_key_from_record(df[i])) @@ df[i]]
    IN  rekeyed(load_existing_csv(file))

\* new_entry_records: the ledger records that pass and whose key is not yet listed
RECURSIVE root_new_entry_records(_, _)
root_new_entry_records(all_records, existing_keys) ==
    IF all_records = <<>> THEN <<>>
    ELSE IF \/ ~root_entry_conditions(Head(all_records))
            \/ Head(all_records)["Dedup_Key"] \in existing_keys
         THEN root_new_entry_records(Tail(all_records), existing_keys)
         ELSE <<Head(all_records)>>
                  \o root_new_entry_records(Tail(all_records),
                         existing_keys \cup {Head(all_records)["Dedup_Key"]})

\* updated_entry_records = existing_entry_records + new_entry_records
root_updated_entry_records(all_records, existing_entry_records) ==
    existing_entry_records
        \o root_new_entry_records(all_records,
               {existing_entry_records[i]["Dedup_Key"] :
                    i \in 1..Len(existing_entry_records)})

\* main() of the older module: the entry list is appended to, not recomputed
root_entry_exit_main(tick) ==
    LET classify(all_records) ==
            IF all_records = <<>>
            THEN UNCHANGED <<bought_vars,
                             potential_entry_csv, potential_exit_csv, today, classify_vars>>
            ELSE classified("root", tick,
                     save_potential_records_to_csv(
                         root_updated_entry_records(all_records,
                             root_existing_entry_records(potential_entry_csv))),
                     save_potential_records_to_csv(
                         exit_records_of(all_records, today + tick)))
    IN  /\ today + tick <= FirstDay + MaxDays
        /\ classify(root_all_records_of(all_signals_csv))
        /\ UNCHANGED <<bought_vars, all_signals_csv, runs, last_run, eval_vars, last_fault,
                       last_refresh, parse_vars>>

\* the calendar: date.today() moves on
AdvanceDay ==
    /\ today < FirstDay + MaxDays
    /\ today' = today + 1
    /\ UNCHANGED <<bought_vars, all_signals_csv, potential_entry_csv, potential_exit_csv, runs,
                   last_run, eval_vars, classify_vars, last_fault, last_refresh,
                   parse_vars>>

NoRun == [outcome |-> "none", sources |-> <<"none", "none">>, before |-> MissingFile,
          new_records |-> <<>>, repeat |-> FALSE]

NoEval == [entry |-> FALSE, root_entry |-> FALSE, exit |-> FALSE]

NoFiles == [ledger |-> MissingFile, entry |-> MissingFile, exit |-> MissingFile]

NoFault == [op |-> "none", at |-> "none", before |-> NoFiles, after |-> NoFiles,
            intended |-> NoFiles]

NoStats == [total_bought |-> 0, matched |-> 0, unmatched |-> 0, unmatched_symbols |-> <<>>]

NoBought == [op |-> "none", result |-> "none", key |-> None, before |-> MissingFile,
             ledger |-> MissingFile, stats |-> NoStats]

NoRefresh == [op |-> "none", market |-> "closed", outcome |-> "none",
              before |-> NoFiles, after |-> NoFiles]

\* no call of the parser probe has returned yet
Pending == [ok |-> TRUE, val |-> <<>>]

NoParse == [signal |-> Pending, root_signal |-> Pending, today |-> Pending,
            record |-> Pending, root_record |-> Pending, saved |-> Pending]

Init ==
    /\ all_signals_csv \in {MissingFile, ZeroLengthFile, Table(<<>>)}
    /\ potential_entry_csv = MissingFile
    /\ potential_exit_csv = MissingFile
    /\ today = FirstDay
    /\ runs = 0
    /\ last_run = NoRun
    /\ eval_record = <<>>
    /\ eval_fetch_date = FirstDay
    /\ eval_result = NoEval
    /\ eval_pc = "idle"
    /\ prev_classify = NoClassify
    /\ last_classify = NoClassify
    /\ last_fault = NoFault
    /\ last_refresh = NoRefresh
    /\ trades_bought_csv = MissingFile
    /\ last_bought = NoBought
    /\ parse_row = <<>>
    /\ parse_result = NoParse
    /\ parse_pc = "idle"

\* classifier runs that read one date throughout; a run with midnight
\* between its two readings of the clock is part of RunsNext
Next ==
    \/ \E d \in DOMAIN DistanceTables \ {"aging"}, t \in DOMAIN TrendTables,
           m \in DOMAIN Markets :
           all_signals_main(d, t, m)
    \/ entry_exit_main(0)
    \/ AdvanceDay

Spec == Init /\ [][Next]_vars

---------------------------------------------------------------------------
(* Classifier calls on single records: entry_conditions(record) and        *)
(* exit_conditions(record, fetch_date) applied to records drawn around the *)
(* end-to-end example of the classifier.                                   *)

MaxOverrides == 2

TxtNoExit == <<"N","o"," ","E","x","i","t"," ","Y","e","t">>

TxtExitCell == <<"2","0","2","6","-","0","2","-","0","9"," ","(","P","r","i","c","e",":"," ","1","0","4",".","0",")">>

\* the record of the end-to-end example: no Signal_Date, no exit fields
ExampleRecord ==
    [Function |-> Str(<<"T","r","e","n","d","l","i","n","e">>), Symbol |-> Str(<<"X">>), Signal_Type |-> Str(TxtLONG),
     Win_Rate |-> Num(9230), Number_Of_Trades |-> Num(1300),
     Signal_Price |-> Num(10000), Today_Price |-> Num(10090),
     PE_Ratio |-> Num(1500), Industry_PE |-> Num(2000),
     Last_Quarter_Profit |-> Num(12000), Last_Year_Same_Quarter_Profit |-> Num(20000),
     TrendPulse_Start_Price |-> Num(5000), TrendPulse_End_Price |-> Num(4000),
     Exit_Signal_Raw |-> Str(TxtNoExit)]

\* the example with the date of its signal
OpenRecord == ExampleRecord @@ ("Signal_Date" :> Str(<<"2","0","2","6","-","0","2","-","0","9">>))

\* the example once its trade is closed
ClosedRecord ==
    ("Exit_Signal_Raw" :> Str(TxtExitCell)) @@ ("Exit_Date" :> Str(<<"2","0","2","6","-","0","2","-","0","9">>))
        @@ ("Exit_Price" :> Num(10400)) @@ OpenRecord

\* a key the record does not carry
Absent == [k |-> "absent", s |-> <<>>, n |-> 0]

FieldValues ==
    [Signal_Type |-> {Str(TxtLong), Str(<<" ","l","o","n","g"," ">>), Str(TxtShortCap), None},
     Signal_Date |-> {Str(<<"2","0","2","6","-","0","2","-","0","3">>), Str(<<"2","0","2","6","-","0","2","-","1","2">>), NaN, Absent},
     Win_Rate |-> {Num(8000), None, NaN, Absent},
     Number_Of_Trades |-> {Num(600), None, NaN, Absent},
     Signal_Price |-> {Num(0), NaN},
     Today_Price |-> {Num(10100), Num(9700), Num(9701), None, NaN},
     PE_Ratio |-> {Num(2000), Num(5000), None, Absent},
     Industry_PE |-> {Num(6000), None, Absent},
     Last_Quarter_Profit |-> {Num(10000), None, Absent},
     Last_Year_Same_Quarter_Profit |-> {None, Absent},
     Function |-> {Str(TxtDistance)},
     TrendPulse_Start_Price |-> {Num(4000), None},
     Exit_Signal_Raw |-> {Str(TxtNoExit), Str(<<>>), NaN},
     Exit_Date |-> {Str(<<"2","0","2","6","-","0","2","-","0","7">>), Str(<<"2","0","2","6","-","0","2","-","2","0">>), None, NaN},
     Exit_Price |-> {None, NaN}]

Overrides == UNION {{<<f, v>> : v \in FieldValues[f]} : f \in DOMAIN FieldValues}

\* record[field] = value, or del record[field]
override(record, o) ==
    IF o[2] = Absent THEN [f \in DOMAIN record \ {o[1]} |-> record[f]]
    ELSE (o[1] :> o[2]) @@ record

\* the records at most k overrides away from the three examples
RECURSIVE Variants(_)
Variants(k) ==
    IF k = 0 THEN {ExampleRecord, OpenRecord, ClosedRecord}
    ELSE Variants(k - 1) \cup {override(r, o) : r \in Variants(k - 1), o \in Overrides}

EvalInit ==
    /\ eval_record \in Variants(MaxOverrides)
    /\ eval_fetch_date \in FirstDay..(FirstDay + MaxDays)
    /\ eval_result = NoEval
    /\ eval_pc = "entry"
    /\ all_signals_csv = MissingFile
    /\ potential_entry_csv = MissingFile
    /\ potential_exit_csv = MissingFile
    /\ today = FirstDay
    /\ runs = 0
    /\ last_run = NoRun
    /\ prev_classify = NoClassify
    /\ last_classify = NoClassify
    /\ last_fault = NoFault
    /\ last_refresh = NoRefresh
    /\ trades_bought_csv = MissingFile
    /\ last_bought = NoBought
    /\ parse_row = <<>>
    /\ parse_result = NoParse
    /\ parse_pc = "idle"

\* utils/entry_exit_fetcher.entry_conditions(record) called on the fetch date
EvaluateEntry ==
    /\ eval_pc = "entry"
    /\ eval_result' = [eval_result EXCEPT !.entry = entry_conditions(eval_record, eval_fetch_date)]
    /\ eval_pc' = "root_entry"
    /\ UNCHANGED <<bought_vars, eval_record, eval_fetch_date, pipeline_vars, classify_vars,
                   last_fault, last_refresh, parse_vars>>

\* entry_exit_fetcher.entry_conditions(record) of the older module
EvaluateRootEntry ==
    /\ eval_pc = "root_entry"
    /\ eval_result' = [eval_result EXCEPT !.root_entry = root_entry_conditions(eval_record)]
    /\ eval_pc' = "exit"
    /\ UNCHANGED <<bought_vars, eval_record, eval_fetch_date, pipeline_vars, classify_vars,
                   last_fault, last_refresh, parse_vars>>

\* exit_conditions(record, fetch_date)
EvaluateExit ==
    /\ eval_pc = "exit"
    /\ eval_result' = [eval_result EXCEPT !.exit = exit_conditions(eval_record, eval_fetch_date)]
    /\ eval_pc' = "done"
    /\ UNCHANGED <<bought_vars, eval_record, eval_fetch_date, pipeline_vars, classify_vars,
                   last_fault, last_refresh, parse_vars>>

EvalNext == EvaluateEntry \/ EvaluateRootEntry \/ EvaluateExit

SpecEval == EvalInit /\ [][EvalNext]_vars

---------------------------------------------------------------------------
(* The older programs: src/all_signals_fetcher.py, which builds the ledger *)
(* with the build_standard_record of src/entry_exit_fetcher.py             *)

\* signal_type = parts[1]: the signal word as written
root_parse_signal_column(value) ==
    LET result == [Symbol |-> None, Signal_Type |-> None,
                   Signal_Date |-> None, Signal_Price |-> None]
        parsed(parts, date_price_part, price) ==
            IF ~price.ok THEN Raised
            ELSE Ok([Symbol |-> Str(parts[1]),
                     Signal_Type |-> Str(parts[2]),
                     Signal_Date |-> search_date(date_price_part),
                     Signal_Price |-> price.val])
        date_price(parts, date_price_part) ==
            parsed(parts, date_price_part, price_of(date_price_part))
        of_parts(parts) ==
            IF Len(parts) < 3 THEN Ok(result)
            ELSE date_price(parts, strip(join(SubSeq(parts, 3, Len(parts)), ",")))
    IN  IF ~IsStr(value) THEN Ok(result) ELSE of_parts(strip_all(split(value.s, ",")))

\* the older build_standard_record: line for line the current one, but for
\* its parse_signal_column and its get_trade_dedup_key_from_record
root_build_standard_record(row, function_name) ==
    LET keyed(record) ==
            ("Dedup_Key" :> root_get_trade_dedup_key_from_record(record)) @@ record
        rebuilt(signal_info, current) ==
            IF ~signal_info.ok \/ ~current.ok THEN Raised
            ELSE Ok(keyed([current.val EXCEPT
                               !["Signal_Type"] = signal_info.val.Signal_Type]))
    IN  rebuilt(root_parse_signal_column(Get(row, ColSignal, Str(<<>>))),
                build_standard_record(row, function_name))

\* the older save_records_to_csv: Raw_Data flattened into the columns the
\* record lacks, every column kept, newest Signal_Date first
root_save_records_to_csv(records) ==
    LET flat(rec, raw) ==
            [c \in (DOMAIN rec \ {"Raw_Data"}) \cup DOMAIN raw |->
                IF c \in DOMAIN rec THEN rec[c] ELSE raw[c]]
        flattened(rec) ==
            flat(rec, IF "Raw_Data" \in DOMAIN rec THEN rec["Raw_Data"] ELSE <<>>)
        framed(recs, cols) ==
            to_csv(IF "Signal_Date" \in cols
                   THEN sort_by_signal_date([i \in 1..Len(recs) |-> frame_row(recs[i], cols)])
                   ELSE [i \in 1..Len(recs) |-> frame_row(recs[i], cols)])
        saved(recs) == framed(recs, UNION {DOMAIN recs[i] : i \in 1..Len(recs)})
    IN  IF records = <<>> THEN Table(<<>>)
        ELSE saved([i \in 1..Len(records) |-> flattened(records[i])])

RECURSIVE root_merge_existing(_, _)
root_merge_existing(d, recs) ==
    IF recs = <<>> THEN d
    ELSE root_merge_existing(
             dict_set(d, root_get_trade_dedup_key_from_record(Head(recs)), Head(recs)),
             Tail(recs))

\* the source files of the runs that open, close and age one trade
RunSources == {"open", "closed", "aging"}

RootBuiltRecords ==
    [d \in RunSources |->
        [i \in 1..Len(DistanceTables[d]) |->
            root_build_standard_record(DistanceTables[d][i], TxtDistance)]]

\* main() of src/all_signals_fetcher.py with a Distance file and no
\* Trendline file: merge and save, without a price update
root_all_signals_main(d) ==
    LET values(built) == [i \in 1..Len(built) |-> built[i].val]
        run(new_records) ==
            /\ all_signals_csv' =
                   root_save_records_to_csv(
                       dict_values(merge_new(
                           root_merge_existing(<<>>, load_existing_csv(all_signals_csv)),
                           new_records)))
            /\ last_run' = [outcome |-> "ok", sources |-> <<d, "none">>,
                            before |-> all_signals_csv, new_records |-> new_records,
                            repeat |-> last_run.outcome = "ok"
                                           /\ last_run.sources = <<d, "none">>]
    IN  /\ runs < MaxRuns
        /\ runs' = runs + 1
        /\ run(values(RootBuiltRecords[d]))
        /\ UNCHANGED <<bought_vars, potential_entry_csv, potential_exit_csv, today, eval_vars,
                       classify_vars, last_fault, last_refresh, parse_vars>>

RunsInit == Init /\ all_signals_csv = MissingFile

RootRunsNext ==
    \/ \E d \in RunSources : root_all_signals_main(d)
    \/ \E tick \in {0, 1} : root_entry_exit_main(tick)
    \/ AdvanceDay

SpecRootRuns == RunsInit /\ [][RootRunsNext]_vars

---------------------------------------------------------------------------
(* Runs of the current programs over the same source files *)

RunsNext ==
    \/ \E d \in RunSources, m \in DOMAIN Markets : all_signals_main(d, "none", m)
    \/ \E tick \in {0, 1} : entry_exit_main(tick)
    \/ AdvanceDay

SpecRuns == RunsInit /\ [][RunsNext]_vars

---------------------------------------------------------------------------
(* Ledger builds that start from a missing, zero-length or row-less ledger *)

\* the source files a build may find: <<Distance file, Trendline file>>
LoadBuilds ==
    {<<"none", "none">>, <<"open", "none">>, <<"nodate", "none">>, <<"none", "trend">>,
     <<"closed", "trend">>, <<"nowin", "trend">>}

LoadNext == \E b \in LoadBuilds, m \in DOMAIN Markets : all_signals_main(b[1], b[2], m)

SpecLoad == Init /\ [][LoadNext]_vars

---------------------------------------------------------------------------
(* Bought trades: Buy of page_functions/potential_signals.py, Remove of    *)
(* page_functions/trades_bought.py and utils/update_bought_trades.py       *)

\* _load_potential_from_csv, _load_bought_from_csv, load_bought_trades
load_bought_trades(file) == IF file.kind = "table" THEN read_csv(file) ELSE <<>>

\* pd.DataFrame(records).to_csv(path, index=False), every column kept
save_bought_to_csv(records) ==
    IF records = <<>> THEN Table(<<>>)
    ELSE LET cols == UNION {DOMAIN records[i] : i \in 1..Len(records)}
         IN  to_csv([i \in 1..Len(records) |-> frame_row(records[i], cols)])

\* rec.get("Dedup_Key", ""), generated when it is falsy
bought_key(rec) ==
    IF Truthy(Get(rec, "Dedup_Key", Str(<<>>))) THEN rec["Dedup_Key"]
    ELSE generate_dedup_key(rec)

\* a Buy that never looks for a stored record with the key
existing_index_never(bought_records, dedup_key) == 0

\* the index of the first stored record with the key, 0 for None
existing_index_of(bought_records, dedup_key) ==
    LET hits == {idx \in 1..Len(bought_records) : bought_key(bought_records[idx]) = dedup_key}
    IN  IF hits = {} THEN 0 ELSE CHOOSE idx \in hits : \A j \in hits : idx <= j

\* [result, file]: the value returned and trades_bought.csv as saved
add_to_bought_trades(file, trade_record) ==
    LET keyed(dedup_key) == ("Dedup_Key" :> dedup_key) @@ trade_record
        visited(bought_records, n) ==
            [idx \in 1..Len(bought_records) |->
                IF idx <= n
                THEN ("Dedup_Key" :> bought_key(bought_records[idx])) @@ bought_records[idx]
                ELSE bought_records[idx]]
        stored(bought_records, dedup_key, existing_index) ==
            IF existing_index # 0
            THEN [result |-> "updated",
                  file |-> save_bought_to_csv(
                      [visited(bought_records, existing_index)
                          EXCEPT ![existing_index] = keyed(dedup_key)])]
            ELSE [result |-> "added",
                  file |-> save_bought_to_csv(
                      Append(visited(bought_records, Len(bought_records)), keyed(dedup_key)))]
        looked_up(bought_records, dedup_key) ==
            stored(bought_records, dedup_key, existing_index_of(bought_records, dedup_key))
    IN  looked_up(load_bought_trades(file), generate_dedup_key(trade_record))

\* the Remove button of a card: trades_bought.csv as saved
remove_from_bought(file, row) ==
    LET same(a, b) == a = b /\ a.k # "nan"
        kept(records, dedup_key) ==
            IF Truthy(dedup_key)
            THEN SelectSeq(records, LAMBDA r : ~same(Get(r, "Dedup_Key", None), dedup_key))
            ELSE SelectSeq(records,
                     LAMBDA r : ~(\A f \in {"Symbol", "Signal_Date", "Function", "Interval"} :
                                      same(Get(r, f, None), Get(row, f, None))))
    IN  save_bought_to_csv(kept(load_bought_trades(file), Get(row, "Dedup_Key", Str(<<>>))))

fields_to_update ==
    {"Win_Rate", "Number_Of_Trades", "Win_Rate_Display", "Strategy_CAGR", "Strategy_Sharpe",
     "PE_Ratio", "Industry_PE", "Last_Quarter_Profit", "Last_Year_Same_Quarter_Profit",
     "Exit_Signal_Raw", "Exit_Date", "Exit_Price", "TrendPulse_Start_End",
     "TrendPulse_Start_Price", "TrendPulse_End_Price", "Today_Price",
     "Today_vs_Signal_Pct", "Today_vs_Signal_Pct_Signed"}

enrich_bought_trade(bought_record, signal_record) ==
    LET updated == (fields_to_update \cup {"Dedup_Key"}) \cap DOMAIN signal_record
    IN  [f \in DOMAIN bought_record \cup updated |->
            IF f \in updated THEN signal_record[f] ELSE bought_record[f]]

\* load_all_signals: the records of the ledger, a later record of a key
\* replacing an earlier one in the lookup
load_all_signals(file) ==
    LET keyed(df) ==
            [i \in 1..Len(df) |->
                IF Truthy(Get(df[i], "Dedup_Key", None)) THEN df[i]
                ELSE ("Dedup_Key" :> get_trade_dedup_key_from_record(df[i])) @@ df[i]]
    IN  keyed(load_bought_trades(file))

\* a lookup that gives the first record of the ledger for every key
lookup_first(signals, dedup_key) == IF signals = <<>> THEN 0 ELSE 1

\* the index in the ledger of all_signals_lookup[dedup_key], 0 when the key
\* is not in the lookup; a key that is NaN is taken not to be found
lookup_index(signals, dedup_key) ==
    LET hits == {i \in 1..Len(signals) :
                    IsStr(dedup_key) /\ signals[i]["Dedup_Key"] = dedup_key}
    IN  IF hits = {} THEN 0 ELSE CHOOSE i \in hits : \A j \in hits : j <= i

\* [stats, file]: the statistics returned and trades_bought.csv afterwards
enrich_bought_trades_from_signals(bought_file, ledger_file) ==
    LET keyed(rec) ==
            IF Truthy(Get(rec, "Dedup_Key", None)) THEN rec
            ELSE ("Dedup_Key" :> get_trade_dedup_key_from_record(rec)) @@ rec
        enriched(bought_trades, signals) ==
            LET found == [i \in 1..Len(bought_trades) |->
                             IF Truthy(bought_trades[i]["Dedup_Key"])
                             THEN lookup_index(signals, bought_trades[i]["Dedup_Key"])
                             ELSE 0]
                unmatched == SelectSeq([i \in 1..Len(bought_trades) |-> i],
                                       LAMBDA i : found[i] = 0)
            IN  [stats |->
                     [total_bought |-> Len(bought_trades),
                      matched |-> Len(bought_trades) - Len(unmatched),
                      unmatched |-> Len(unmatched),
                      unmatched_symbols |->
                          [k \in 1..Len(unmatched) |->
                              Get(bought_trades[unmatched[k]], "Symbol", Str(<<"U","n","k","n","o","w","n">>))]],
                 file |->
                     save_bought_to_csv(
                         [i \in 1..Len(bought_trades) |->
                             IF found[i] # 0
                             THEN enrich_bought_trade(bought_trades[i], signals[found[i]])
                             ELSE bought_trades[i]])]
        loaded(bought_trades) ==
            IF bought_trades = <<>> THEN [stats |-> NoStats, file |-> bought_file]
            ELSE enriched([i \in 1..Len(bought_trades) |-> keyed(bought_trades[i])],
                          load_all_signals(ledger_file))
    IN  loaded(load_bought_trades(bought_file))

\* the lists a card with a Buy button is drawn from
BuyLists == {"entry", "exit"}

\* the cards of a potential list: the records _load_potential_from_csv gives
potential_records(list) ==
    load_bought_trades(IF list = "entry" THEN potential_entry_csv ELSE potential_exit_csv)

\* the Buy button of card i of a potential list
Buy(list, i) ==
    LET rows == potential_records(list)
        done(trade_record, r) ==
            /\ trades_bought_csv' = r.file
            /\ last_bought' = [op |-> "buy", result |-> r.result,
                               key |-> generate_dedup_key(trade_record),
                               before |-> trades_bought_csv, ledger |-> all_signals_csv,
                               stats |-> NoStats]
    IN  /\ i \in 1..Len(rows)
        /\ done(rows[i], add_to_bought_trades(trades_bought_csv, rows[i]))
        /\ UNCHANGED <<pipeline_vars, eval_vars, classify_vars, last_fault, last_refresh,
                       parse_vars>>

\* the Remove button of card i of the bought page
Remove(i) ==
    LET rows == load_bought_trades(trades_bought_csv)
    IN  /\ i \in 1..Len(rows)
        /\ trades_bought_csv' = remove_from_bought(trades_bought_csv, rows[i])
        /\ last_bought' = [op |-> "remove", result |-> "removed",
                           key |-> Get(rows[i], "Dedup_Key", Str(<<>>)),
                           before |-> trades_bought_csv, ledger |-> all_signals_csv,
                           stats |-> NoStats]
        /\ UNCHANGED <<pipeline_vars, eval_vars, classify_vars, last_fault, last_refresh,
                       parse_vars>>

\* utils/update_bought_trades.enrich_bought_trades_from_signals()
Enrich ==
    LET done(r) ==
            /\ trades_bought_csv' = r.file
            /\ last_bought' = [op |-> "enrich", result |-> "enriched", key |-> None,
                               before |-> trades_bought_csv, ledger |-> all_signals_csv,
                               stats |-> r.stats]
    IN  /\ done(enrich_bought_trades_from_signals(trades_bought_csv, all_signals_csv))
        /\ UNCHANGED <<pipeline_vars, eval_vars, classify_vars, last_fault, last_refresh,
                       parse_vars>>

---------------------------------------------------------------------------
(* Ledger builds, classifier runs and live price refreshes of the pages    *)
(* (SpecLedger), and runs that end part-way (SpecFaults).                  *)
(* DataFrame.to_csv(path) opens the file for writing and writes the rows   *)
(* in order.                                                               *)

\* the source files a build may find: <<Distance file, Trendline file>>
LedgerBuilds == {<<"none", "none">>, <<"open", "none">>, <<"none", "trend">>}

\* what a to_csv(path) that does not finish can leave at path
interrupted_writes(file) ==
    {ZeroLengthFile} \cup {Table(SubSeq(file.rows, 1, n)) : n \in 1..(Len(file.rows) - 1)}

\* The behaviours of SpecFaults have at most one run that ends part-way.
\* main() of utils/all_signals_fetcher.py ending with an exception or a kill
\* during the write of save_records_to_csv ("save"), after it and before the
\* write of update_today_prices_for_all_signals ("price_update"), or during
\* that write ("update_write")
all_signals_main_fails(d, t, m, at) ==
    LET values(built) == [i \in 1..Len(built) |-> built[i].val]
        left(saved, refreshed) ==
            CASE at = "save"         -> interrupted_writes(saved)
              [] at = "price_update" -> {saved}
              [] at = "update_write" -> interrupted_writes(refreshed)
        fails(saved, refreshed) ==
            /\ at = "update_write" => read_csv(saved) # <<>>
            /\ all_signals_csv' \in left(saved, refreshed)
            /\ last_fault' = [op |-> "all_signals_main", at |-> at,
                              before |-> Files,
                              after |-> [Files EXCEPT !.ledger = all_signals_csv'],
                              intended |-> [Files EXCEPT !.ledger = refreshed]]
        save(saved) ==
            fails(saved, update_today_prices_for_all_signals(saved, Markets[m]))
        run(built) ==
            /\ ~no_source_files(d, t)
            /\ \A i \in 1..Len(built) : built[i].ok
            /\ save(save_records_to_csv(
                        merge_records(load_existing_csv(all_signals_csv), values(built))))
    IN  /\ runs < MaxRuns
        /\ last_fault = NoFault
        /\ runs' = runs + 1
        /\ run(BuiltRecords[d, t])
        /\ UNCHANGED <<bought_vars,
                       potential_entry_csv, potential_exit_csv, today, last_run, eval_vars,
                       classify_vars, last_refresh, parse_vars>>

\* main() of utils/entry_exit_fetcher.py ending during the write of
\* potential_entry.csv ("entry_write"), after it ("after_entry") or during
\* the write of potential_exit.csv ("exit_write")
entry_exit_main_fails(at) ==
    LET fails(entry_file, exit_file) ==
            /\ potential_entry_csv' \in
                   IF at = "entry_write" THEN interrupted_writes(entry_file)
                   ELSE {entry_file}
            /\ potential_exit_csv' \in
                   IF at = "exit_write" THEN interrupted_writes(exit_file)
                   ELSE {potential_exit_csv}
            /\ last_fault' = [op |-> "entry_exit_main", at |-> at,
                              before |-> Files,
                              after |-> [ledger |-> all_signals_csv,
                                         entry |-> potential_entry_csv',
                                         exit |-> potential_exit_csv'],
                              intended |-> [ledger |-> all_signals_csv,
                                            entry |-> entry_file, exit |-> exit_file]]
        classify(all_records) ==
            /\ all_records # <<>>
            /\ fails(save_potential_records_to_csv(entry_records_of(all_records, today)),
                     save_potential_records_to_csv(exit_records_of(all_records, today)))
    IN  /\ last_fault = NoFault
        /\ classify(all_records_of(all_signals_csv))
        /\ UNCHANGED <<bought_vars,
                       all_signals_csv, today, runs, last_run, eval_vars, classify_vars,
                       last_refresh, parse_vars>>

\* the loop of the page refreshes: rec["Today_Price"] = float(price) for
\* the records whose symbol is not empty and whose price is found
page_refreshed(records, market) ==
    LET price_of_symbol(rec, symbol) ==
            IF symbol = <<>> THEN None ELSE fetch_current_price_yfinance(market, symbol)
        found(rec) == price_of_symbol(rec, strip(py_str(Get(rec, "Symbol", Str(<<>>)))))
        updated(rec, price) == IF price = None THEN rec ELSE ("Today_Price" :> price) @@ rec
    IN  [records |-> [i \in 1..Len(records) |-> updated(records[i], found(records[i]))],
         updated_count |-> Cardinality({i \in 1..Len(records) : found(records[i]) # None})]

\* rec.pop("Current_Price", None)
pop_current_price(records) ==
    [i \in 1..Len(records) |->
        [c \in DOMAIN records[i] \ {"Current_Price"} |-> records[i][c]]]

\* _update_all_signals_prices of page_functions/all_signals.py
update_all_signals_prices(m) ==
    LET refresh(raises, records) ==
            /\ all_signals_csv' = IF raises THEN all_signals_csv ELSE to_csv(records)
            /\ last_refresh' =
                   [op |-> "_update_all_signals_prices", market |-> m,
                    outcome |-> IF raises THEN "raised" ELSE "ok",
                    before |-> Files,
                    after |-> [Files EXCEPT !.ledger = all_signals_csv']]
        loop(total, refreshed) ==
            refresh(total = 0 \/ refreshed.updated_count = 0, refreshed.records)
        load(records) == loop(Len(records), page_refreshed(records, Markets[m]))
    IN  /\ load(load_existing_csv(all_signals_csv))
        /\ UNCHANGED <<bought_vars, potential_entry_csv, potential_exit_csv, today, runs, last_run,
                       eval_vars, classify_vars, last_fault, parse_vars>>

\* _update_potential_prices of page_functions/potential_signals.py
update_potential_prices(m) ==
    LET written(file, records) ==
            IF records = <<>> THEN file ELSE to_csv(pop_current_price(records))
        refresh(raises, entry_records, exit_records) ==
            /\ potential_entry_csv' =
                   IF raises THEN potential_entry_csv
                   ELSE written(potential_entry_csv, entry_records)
            /\ potential_exit_csv' =
                   IF raises THEN potential_exit_csv
                   ELSE written(potential_exit_csv, exit_records)
            /\ last_refresh' =
                   [op |-> "_update_potential_prices", market |-> m,
                    outcome |-> IF raises THEN "raised" ELSE "ok",
                    before |-> Files,
                    after |-> [ledger |-> all_signals_csv,
                               entry |-> potential_entry_csv',
                               exit |-> potential_exit_csv']]
        loop(total, entry_refreshed, exit_refreshed) ==
            refresh(total = 0
                        \/ entry_refreshed.updated_count + exit_refreshed.updated_count = 0,
                    entry_refreshed.records, exit_refreshed.records)
        load(entry_records, exit_records) ==
            loop(Len(entry_records) + Len(exit_records),
                 page_refreshed(entry_records, Markets[m]),
                 page_refreshed(exit_records, Markets[m]))
    IN  /\ load(load_existing_csv(potential_entry_csv), load_existing_csv(potential_exit_csv))
        /\ UNCHANGED <<bought_vars,
                       all_signals_csv, today, runs, last_run, eval_vars, classify_vars,
                       last_fault, parse_vars>>

LedgerNext ==
    \/ \E b \in LedgerBuilds, m \in DOMAIN Markets : all_signals_main(b[1], b[2], m)
    \/ entry_exit_main(0)
    \/ \E m \in DOMAIN Markets : update_all_signals_prices(m)
    \/ \E m \in DOMAIN Markets : update_potential_prices(m)

SpecLedger == RunsInit /\ [][LedgerNext]_vars

FaultsNext ==
    \/ \E b \in LedgerBuilds, m \in DOMAIN Markets : all_signals_main(b[1], b[2], m)
    \/ \E b \in LedgerBuilds, m \in DOMAIN Markets,
           at \in {"save", "price_update", "update_write"} :
           all_signals_main_fails(b[1], b[2], m, at)
    \/ entry_exit_main(0)
    \/ \E at \in {"entry_write", "after_entry", "exit_write"} : entry_exit_main_fails(at)

SpecFaults == RunsInit /\ [][FaultsNext]_vars

---------------------------------------------------------------------------
(* Buy and Remove on the lists of the classifier (SpecBought), and the     *)
(* enrichment of the bought trades from a ledger that builds change and a  *)
(* build that ends part-way truncates (SpecEnrich)                         *)

BoughtBuilds == {<<"open", "none">>, <<"aging", "none">>}

BoughtNext ==
    \/ \E b \in BoughtBuilds : all_signals_main(b[1], b[2], "closed")
    \/ entry_exit_main(0)
    \/ \E list \in BuyLists : \E i \in 1..Len(potential_records(list)) : Buy(list, i)
    \/ \E i \in 1..Len(trades_bought_csv.rows) : Remove(i)

SpecBought == RunsInit /\ [][BoughtNext]_vars

EnrichBuilds == {<<"open", "none">>, <<"aging", "none">>, <<"closed", "none">>}

EnrichNext ==
    \/ \E b \in EnrichBuilds : all_signals_main(b[1], b[2], "closed")
    \/ all_signals_main_fails("closed", "none", "closed", "save")
    \/ entry_exit_main(0)
    \/ \E i \in 1..Len(potential_records("entry")) : Buy("entry", i)
    \/ Enrich

SpecEnrich == RunsInit /\ [][EnrichNext]_vars

---------------------------------------------------------------------------
(* Parser calls on single rows: parse_signal_column, parse_today_vs_signal *)
(* and build_standard_record of both modules applied to source rows whose  *)
(* cells are drawn around the documented grammar.                          *)

SignalWords == {<<"L","o","n","g">>, <<"S","H","O","R","T">>, <<"s","h","o","r","t"," ","s","e","l","l">>, <<"B","u","y">>}

SignalTails ==
    {<<"2","0","2","6","-","0","2","-","0","9"," ","(","P","r","i","c","e",":"," ","1","5","9","7",".","5",")">>, <<"(","P","r","i","c","e",":"," ","1","5","9","7",".","5",")">>, <<"2","0","2","6","-","0","2","-","0","9">>,
     <<"2","0","2","6","-","0","2","-","0","9"," ","(","P","r","i","c","e",":"," ","1",".","2",".","3",")">>, <<"2","0","2","6","-","0","2","-","0","9"," ","(","P","r","i","c","e",":"," ",".",")">>}

\* "<symbol>, <signal-word>, <date> (Price: <float>)" and cells that are not of that form
SignalCells ==
    {Str(<<"A","A","A",","," ">> \o word \o <<","," ">> \o tail) : word \in SignalWords, tail \in SignalTails}
        \cup {Str(<<"A","A","A",","," ","L","o","n","g">>), Str(<<>>), NaN}

TodayCells ==
    {Str(TxtTodayCell), Str(<<"2","0","2","6","-","0","2","-","1","0"," ","(","P","r","i","c","e",":"," ","1",".","2",".","3",")",","," ","0",".","9","%"," ","a","b","o","v","e">>), NaN}

ExitCells ==
    {Str(TxtNoExitYet), Str(<<"N","O"," ","E","X","I","T"," ","Y","E","T">>), Str(<<"n","o"," ","e","x","i","t"," ","y","e","t">>),
     Str(<<"N","o"," ","E","x","i","t"," ","Y","e","t",","," ","2","0","2","6","-","0","2","-","1","1"," ","(","P","r","i","c","e",":"," ","1","0","4",".","0",")">>),
     Str(<<"N","O"," ","E","X","I","T"," ","Y","E","T",","," ","2","0","2","6","-","0","2","-","1","1"," ","(","P","r","i","c","e",":"," ","1","0","4",".","0",")">>),
     Str(<<"2","0","2","6","-","0","2","-","1","1"," ","(","P","r","i","c","e",":"," ","1","0","4",".","0",")">>), Str(<<"2","0","2","6","-","0","2","-","1","1"," ","(","P","r","i","c","e",":"," ",".",")">>), NaN}

IntervalCells == {Str(TxtDaily), NaN}

ParseRows ==
    {[row |-> SourceRow(sig, Str(TxtWin), today_cell, interval, exit_cell,
                        Num(1500), Num(2000), Num(12000), Num(20000)),
      function_name |-> function_name] :
        sig \in SignalCells, today_cell \in TodayCells, interval \in IntervalCells,
        exit_cell \in ExitCells, function_name \in {TxtDistance, TxtTrendlineCap}}

ParseInit ==
    /\ parse_row \in ParseRows
    /\ parse_result = NoParse
    /\ parse_pc = "signal"
    /\ all_signals_csv = MissingFile
    /\ potential_entry_csv = MissingFile
    /\ potential_exit_csv = MissingFile
    /\ today = FirstDay
    /\ runs = 0
    /\ last_run = NoRun
    /\ eval_record = <<>>
    /\ eval_fetch_date = FirstDay
    /\ eval_result = NoEval
    /\ eval_pc = "idle"
    /\ prev_classify = NoClassify
    /\ last_classify = NoClassify
    /\ last_fault = NoFault
    /\ last_refresh = NoRefresh
    /\ trades_bought_csv = MissingFile
    /\ last_bought = NoBought

\* parse_signal_column(row.get("Symbol, Signal, Signal Date/Price[$]", "")) of both modules
ParseSignalColumn ==
    /\ parse_pc = "signal"
    /\ parse_result' =
           [parse_result EXCEPT
               !.signal = parse_signal_column(Get(parse_row.row, ColSignal, Str(<<>>))),
               !.root_signal =
                   root_parse_signal_column(Get(parse_row.row, ColSignal, Str(<<>>)))]
    /\ parse_pc' = "today"
    /\ UNCHANGED <<bought_vars, parse_row, pipeline_vars, eval_vars, classify_vars, last_fault,
                   last_refresh>>

\* parse_today_vs_signal(row.get("Today Trading Date/Price[$], Today price vs Signal", ""))
ParseTodayVsSignal ==
    /\ parse_pc = "today"
    /\ parse_result' =
           [parse_result EXCEPT
               !.today = parse_today_vs_signal(Get(parse_row.row, ColToday, Str(<<>>)))]
    /\ parse_pc' = "record"
    /\ UNCHANGED <<bought_vars, parse_row, pipeline_vars, eval_vars, classify_vars, last_fault,
                   last_refresh>>

\* build_standard_record(row, function_name) of both modules
BuildStandardRecord ==
    /\ parse_pc = "record"
    /\ parse_result' =
           [parse_result EXCEPT
               !.record = build_standard_record(parse_row.row, parse_row.function_name),
               !.root_record =
                   root_build_standard_record(parse_row.row, parse_row.function_name)]
    /\ parse_pc' = "done"
    /\ UNCHANGED <<bought_vars, parse_row, pipeline_vars, eval_vars, classify_vars, last_fault,
                   last_refresh>>

\* save_records_to_csv of utils/all_signals_fetcher.py, of the older
\* all_signals_fetcher.py and of utils/entry_exit_fetcher.py on the record built
SaveRecords ==
    /\ parse_pc = "done"
    /\ parse_result.record.ok
    /\ parse_result.root_record.ok
    /\ parse_result' =
           [parse_result EXCEPT
               !.saved =
                   Ok([ledger |-> save_records_to_csv(<<parse_result.record.val>>),
                       root_ledger |->
                           root_save_records_to_csv(<<parse_result.root_record.val>>),
                       potential |->
                           save_potential_records_to_csv(<<parse_result.record.val>>)])]
    /\ parse_pc' = "saved"
    /\ UNCHANGED <<bought_vars, parse_row, pipeline_vars, eval_vars, classify_vars, last_fault,
                   last_refresh>>

ParseNext ==
    ParseSignalColumn \/ ParseTodayVsSignal \/ BuildStandardRecord \/ SaveRecords

SpecParse == ParseInit /\ [][ParseNext]_vars

---------------------------------------------------------------------------
(* Properties of the ledger build and of the classifier run (Spec) *)

LedgerRows == all_signals_csv.rows

\* a file row without its Today_Price cell, which the price refresh rewrites
WithoutTodayPrice(row) == [c \in DOMAIN row \ {"Today_Price"} |-> row[c]]

\* the file row save writes for an in-memory record
SavedRow(record, cols) == [c \in cols |-> to_csv_cell(Get(record, c, NaN))]

\* C1: after any sequence of ledger builds the saved ledger holds at most one
\* row per Dedup_Key value, null or empty Symbol / Signal_Date / Interval included
OneRowPerDedupKey ==
    \A i, j \in 1..Len(LedgerRows) :
        i # j => LedgerRows[i]["Dedup_Key"] # LedgerRows[j]["Dedup_Key"]

\* C2: a build that brings a record r' whose Dedup_Key the ledger already holds
\* leaves exactly one row for that key, equal to r' as a whole, and leaves the
\* rows of every other key as they were
WholeRecordOverwrite ==
    last_run.outcome = "ok" =>
        LET before   == last_run.before.rows
            incoming == last_run.new_records
            new_keys == {incoming[k]["Dedup_Key"].s : k \in 1..Len(incoming)}
        IN  /\ \A k \in 1..Len(incoming) :
                   (\E h \in 1..Len(before) :
                        before[h]["Dedup_Key"] = incoming[k]["Dedup_Key"].s)
                   => /\ Cardinality({i \in 1..Len(LedgerRows) :
                              LedgerRows[i]["Dedup_Key"] = incoming[k]["Dedup_Key"].s}) = 1
                      /\ \A i \in 1..Len(LedgerRows) :
                             LedgerRows[i]["Dedup_Key"] = incoming[k]["Dedup_Key"].s
                             => WithoutTodayPrice(LedgerRows[i])
                                    = WithoutTodayPrice(
                                          SavedRow(incoming[k], DOMAIN LedgerRows[i]))
            /\ \A h \in 1..Len(before) :
                   before[h]["Dedup_Key"] \notin new_keys
                   => Cardinality({i \in 1..Len(LedgerRows) :
                           WithoutTodayPrice(LedgerRows[i]) = WithoutTodayPrice(before[h])})
                        = Cardinality({g \in 1..Len(before) :
                           WithoutTodayPrice(before[g]) = WithoutTodayPrice(before[h])})

\* C3: a build repeated with the same source rows leaves the ledger with the
\* same Dedup_Keys, the same number of rows and the same core field values
RepeatedBuildIsIdempotent ==
    (last_run.outcome = "ok" /\ last_run.repeat) =>
        /\ Len(LedgerRows) = Len(last_run.before.rows)
        /\ {WithoutTodayPrice(LedgerRows[i]) : i \in 1..Len(LedgerRows)}
               = {WithoutTodayPrice(last_run.before.rows[i]) :
                      i \in 1..Len(last_run.before.rows)}

\* C4: for every row loaded back from the saved ledger, the key recomputed by
\* get_trade_dedup_key_from_record equals the Dedup_Key the row was saved with
KeysSurviveRoundTrip ==
    LET rekeyed(loaded) ==
            \A i \in 1..Len(loaded) :
                get_trade_dedup_key_from_record(loaded[i]) = loaded[i]["Dedup_Key"]
    IN  rekeyed(load_existing_csv(all_signals_csv))

\* C6: no row of the potential-entry list has a blank Win_Rate, Number_Of_Trades,
\* Signal_Price or Today_Price cell, and no row of the potential-exit list has
\* one of these or the Exit_Price cell blank
BlankCellsFailClosed ==
    /\ \A i \in 1..Len(potential_entry_csv.rows) :
           \A c \in {"Win_Rate", "Number_Of_Trades", "Signal_Price", "Today_Price"} :
               potential_entry_csv.rows[i][c] # <<>>
    /\ \A i \in 1..Len(potential_exit_csv.rows) :
           \A c \in {"Win_Rate", "Number_Of_Trades", "Signal_Price", "Today_Price",
                     "Exit_Price"} :
               potential_exit_csv.rows[i][c] # <<>>

---------------------------------------------------------------------------
(* Properties of entry_conditions and exit_conditions (SpecEval) *)

Done == eval_pc = "done"

Field(record, f) == Get(record, f, None)

Missing(record, f) == Field(record, f) = None

RequiredNumericFields ==
    {"Win_Rate", "Number_Of_Trades", "PE_Ratio", "Industry_PE",
     "Last_Quarter_Profit", "Last_Year_Same_Quarter_Profit"}

\* C5: a record that lacks any of the six required numeric fields is rejected
\* by entry_conditions (both modules) and by exit_conditions, on every fetch
\* date and whatever its other fields are
FailClosed ==
    (Done /\ \E f \in RequiredNumericFields : Missing(eval_record, f))
    => ~eval_result.entry /\ ~eval_result.root_entry /\ ~eval_result.exit

\* a closed record that meets every exit rule but for its null PE_Ratio, rejected
FailClosedWitness ==
    /\ Done
    /\ eval_record = [ClosedRecord EXCEPT !["PE_Ratio"] = None]
    /\ ~eval_result.entry /\ ~eval_result.exit

\* C7 as stated: entry_conditions returns True for the example record, which
\* carries no Signal_Date
ExampleAccepted ==
    (Done /\ eval_record = ExampleRecord) => eval_result.entry

\* the example record with a Signal_Date of the given age in days
IsDatedExample(record, fetch_date, age) ==
    /\ DOMAIN record = DOMAIN ExampleRecord \cup {"Signal_Date"}
    /\ \A f \in DOMAIN ExampleRecord : record[f] = ExampleRecord[f]
    /\ IsStr(record["Signal_Date"])
    /\ strptime_date(record["Signal_Date"]).ok
    /\ fetch_date - strptime_date(record["Signal_Date"]).val = age

\* C7: entry_conditions returns True for the example record once it carries a
\* Signal_Date that is 0 to ENTRY_SIGNAL_RECENCY_DAYS days before the fetch
\* date, and False for the example as given and for a Signal_Date outside that
\* window; the older module's entry_conditions returns True for the example
ExampleAcceptedWhenDated ==
    Done =>
        /\ eval_record = ExampleRecord => ~eval_result.entry /\ eval_result.root_entry
        /\ \A age \in -MaxDays..(ENTRY_SIGNAL_RECENCY_DAYS + MaxDays) :
               IsDatedExample(eval_record, eval_fetch_date, age)
               => (eval_result.entry <=> (0 <= age /\ age <= ENTRY_SIGNAL_RECENCY_DAYS))

\* the example with a signal exactly ENTRY_SIGNAL_RECENCY_DAYS old, accepted
ExampleAcceptedWhenDatedWitness ==
    /\ Done
    /\ IsDatedExample(eval_record, eval_fetch_date, ENTRY_SIGNAL_RECENCY_DAYS)
    /\ eval_result.entry

\* the record passes every entry rule once its price sits on the signal price
PassesOtherEntryRules(record, fetch_date) ==
    entry_conditions(("Today_Price" :> Field(record, "Signal_Price")) @@ record, fetch_date)

CellText(record, f, default) == strip(py_str(Get(record, f, default)))

\* present and not <= the minimum; a not-a-number value is not <= anything
AboveMinimum(v, minimum) == v # None /\ ~(IsNum(v) /\ v.n <= minimum)

ExitEligible(record, fetch_date) ==
    /\ upper(CellText(record, "Signal_Type", Str(<<>>))) = TxtLONG
    /\ AboveMinimum(Field(record, "Win_Rate"), ENTRY_EXIT_MIN_WIN_RATE)
    /\ AboveMinimum(Field(record, "Number_Of_Trades"), ENTRY_EXIT_MIN_NUM_TRADES)
    /\ CellText(record, "Exit_Signal_Raw", Str(<<>>)) # <<>>
    /\ ~contains(lower(CellText(record, "Exit_Signal_Raw", Str(<<>>))), TxtNoExitYetLower)
    /\ Truthy(Field(record, "Exit_Date"))
    /\ strptime_date(Field(record, "Exit_Date")).ok
    /\ fetch_date - strptime_date(Field(record, "Exit_Date")).val <= EXIT_RECENCY_DAYS
    /\ Field(record, "Exit_Price") # None
    /\ IsNum(Field(record, "PE_Ratio")) /\ IsNum(Field(record, "Industry_PE"))
    /\ Field(record, "Industry_PE").n > Field(record, "PE_Ratio").n
    /\ Field(record, "PE_Ratio").n < ENTRY_EXIT_MAX_PE_RATIO
    /\ IsNum(Field(record, "Last_Quarter_Profit"))
    /\ IsNum(Field(record, "Last_Year_Same_Quarter_Profit"))
    /\ Field(record, "Last_Quarter_Profit").n * 100
           > ENTRY_EXIT_PROFIT_RATIO * Field(record, "Last_Year_Same_Quarter_Profit").n
    /\ lower(py_str(Get(record, "Function", Str(<<>>)))) = TxtTrendline
       => /\ IsNum(Field(record, "TrendPulse_Start_Price"))
          /\ IsNum(Field(record, "TrendPulse_End_Price"))
          /\ Field(record, "TrendPulse_Start_Price").n > Field(record, "TrendPulse_End_Price").n

ExitDateWithinWindow ==
    (Done /\ eval_result.exit) =>
        LET within(exit_dt) ==
                /\ exit_dt.ok
                /\ eval_fetch_date - exit_dt.val <= EXIT_RECENCY_DAYS
                /\ exit_dt.val - eval_fetch_date <= EXIT_RECENCY_DAYS
        IN  within(strptime_date(Field(eval_record, "Exit_Date")))

\* the record sits exactly on one of the thresholds of the filters
OnAThreshold(record) ==
    LET equal(v, w) == IsNum(v) /\ IsNum(w) /\ v.n = w.n
    IN  \/ equal(Field(record, "Win_Rate"), Num(ENTRY_EXIT_MIN_WIN_RATE))
        \/ equal(Field(record, "Number_Of_Trades"), Num(ENTRY_EXIT_MIN_NUM_TRADES))
        \/ equal(Field(record, "PE_Ratio"), Num(ENTRY_EXIT_MAX_PE_RATIO))
        \/ equal(Field(record, "Industry_PE"), Field(record, "PE_Ratio"))
        \/ /\ IsNum(Field(record, "Last_Quarter_Profit"))
           /\ IsNum(Field(record, "Last_Year_Same_Quarter_Profit"))
           /\ Field(record, "Last_Quarter_Profit").n * 100
                  = ENTRY_EXIT_PROFIT_RATIO * Field(record, "Last_Year_Same_Quarter_Profit").n

\* C23: every threshold of the filters is strict: a record whose Win_Rate,
\* Number_Of_Trades or PE_Ratio equals its threshold, whose Industry_PE equals
\* its PE_Ratio or whose Last_Quarter_Profit equals the ratio times
\* Last_Year_Same_Quarter_Profit is rejected by entry_conditions and by
\* exit_conditions
ThresholdsAreStrict ==
    (Done /\ OnAThreshold(eval_record)) => ~eval_result.entry /\ ~eval_result.exit

\* the closed example with Industry_PE equal to its PE_Ratio, rejected by the
\* exit filter that accepts the example itself
ThresholdsAreStrictWitness ==
    /\ Done
    /\ eval_record = [ClosedRecord EXCEPT !["PE_Ratio"] = Num(2000)]
    /\ exit_conditions(ClosedRecord, eval_fetch_date)
    /\ ~eval_result.exit

\* values of a TrendPulse price: above and below the other price, missing
TrendPulseValues == {Num(3000), Num(9000), None, NaN, Absent}

IsTrendline(record) == lower(py_str(Get(record, "Function", Str(<<>>)))) = TxtTrendline

\* C24: a Trendline record is accepted by entry_conditions or exit_conditions
\* only with both TrendPulse prices present and start > end; for a record of
\* another Function the result is the same whatever the two prices are
TrendPulseOnlyForTrendline ==
    Done =>
        /\ (IsTrendline(eval_record) /\ (eval_result.entry \/ eval_result.exit))
           => /\ IsNum(Field(eval_record, "TrendPulse_Start_Price"))
              /\ IsNum(Field(eval_record, "TrendPulse_End_Price"))
              /\ Field(eval_record, "TrendPulse_Start_Price").n
                     > Field(eval_record, "TrendPulse_End_Price").n
        /\ ~IsTrendline(eval_record)
           => \A f \in {"TrendPulse_Start_Price", "TrendPulse_End_Price"} :
                  \A v \in TrendPulseValues :
                      /\ entry_conditions(override(eval_record, <<f, v>>), eval_fetch_date)
                             = eval_result.entry
                      /\ exit_conditions(override(eval_record, <<f, v>>), eval_fetch_date)
                             = eval_result.exit

\* a Distance record without its start price, accepted as the example is
TrendPulseOnlyForTrendlineWitness ==
    /\ Done
    /\ eval_record = [OpenRecord EXCEPT !["Function"] = Str(TxtDistance),
                                        !["TrendPulse_Start_Price"] = None]
    /\ eval_result.entry

\* entry_conditions and exit_conditions are never both True of a record: the
\* first needs "no exit yet" in Exit_Signal_Raw, the second its absence
EntryAndExitExclusive == Done => ~(eval_result.entry /\ eval_result.exit)

---------------------------------------------------------------------------
(* Properties of the classifier runs (SpecRuns) *)

\* the entry rule the module of a run applies, on the date its calls read
EntryRuleOf(run, record) ==
    IF run.module = "utils" THEN entry_conditions(record, run.entry_date)
    ELSE root_entry_conditions(record)

\* C11: after every classifier run the potential-entry list holds exactly
\* the ledger records that satisfy entry_conditions in that run and the
\* potential-exit list exactly those that satisfy exit_conditions; a record
\* an earlier run listed that no longer qualifies is not in the new list
ListsAreRecomputed ==
    last_classify.module # "none" =>
        LET recomputed(all_records) ==
                /\ last_classify.entry =
                       save_potential_records_to_csv(
                           SelectSeq(all_records,
                                     LAMBDA record : EntryRuleOf(last_classify, record)))
                /\ last_classify.exit =
                       save_potential_records_to_csv(
                           exit_records_of(all_records, last_classify.fetch_date))
        IN  recomputed(load_existing_csv(last_classify.ledger))

\* C12: two runs of the same classifier on the same ledger snapshot with the
\* same fetch date write the same two lists, whatever the clock read while
\* the entries were evaluated and whatever potential_entry.csv held before
SameInputsSameLists ==
    (/\ prev_classify.module # "none"
     /\ prev_classify.module = last_classify.module
     /\ prev_classify.ledger = last_classify.ledger
     /\ prev_classify.fetch_date = last_classify.fetch_date)
    => /\ prev_classify.entry = last_classify.entry
       /\ prev_classify.exit = last_classify.exit

---------------------------------------------------------------------------
(* Properties of the parser calls (SpecParse) *)

Parsed == parse_pc = "done"

Built == Parsed /\ parse_result.record.ok

\* values put in the place of a field that is not part of the key
OtherFieldValues == {None, NaN, Str(<<>>), Str(<<"S","H","O","R","T">>), Num(100)}

\* the five values of a record, as texts, the signal type as Long or Short
KeyTuple(record) ==
    <<CellText(record, "Function", Str(<<>>)),
      CellText(record, "Symbol", Str(<<>>)),
      CellText(record, "Signal_Date", Str(<<>>)),
      IF contains(lower(CellText(record, "Signal_Type", Str(<<>>))), <<"s","h","o","r","t">>)
      THEN <<"S","h","o","r","t">> ELSE <<"L","o","n","g">>,
      CellText(record, "Interval", Str(<<>>))>>

\* C13: the Dedup_Key a built record stores is its Function, Symbol,
\* Signal_Date, normalized Signal_Type and Interval joined with "|" in that
\* order; it is the value get_trade_dedup_key_from_record computes from the
\* record's own fields, and no other field of the record changes that value
KeyIsFunctionOfFiveFields ==
    Built =>
        LET same_key(record) ==
                /\ record["Dedup_Key"] = Str(join(KeyTuple(record), "|"))
                /\ get_trade_dedup_key_from_record(record) = record["Dedup_Key"]
                /\ \A f \in DOMAIN record \ {"Function", "Symbol", "Signal_Date",
                                               "Signal_Type", "Interval"} :
                       \A v \in OtherFieldValues :
                           get_trade_dedup_key_from_record([record EXCEPT ![f] = v])
                               = record["Dedup_Key"]
        IN  same_key(parse_result.record.val)

\* a record built from a Trendline row with an unrecognized signal word
KeyIsFunctionOfFiveFieldsWitness ==
    /\ Built
    /\ Get(parse_row.row, ColSignal, None) = Str(<<"A","A","A",","," ","B","u","y",","," ","2","0","2","6","-","0","2","-","0","9"," ","(","P","r","i","c","e",":"," ","1","5","9","7",".","5",")">>)
    /\ parse_result.record.val["Dedup_Key"] = Str(<<"T","r","e","n","d","l","i","n","e","|","A","A","A","|","2","0","2","6","-","0","2","-","0","9","|","L","o","n","g","|","D","a","i","l","y">>)

\* the comma parts of the signal cell of the row, <<>> for a cell that is not text
SignalParts ==
    LET parts(cell) == IF IsStr(cell) THEN strip_all(split(cell.s, ",")) ELSE <<>>
    IN  parts(Get(parse_row.row, ColSignal, None))

\* C14: a record built from a row whose signal cell has at least three
\* comma parts has Signal_Type SHORT when the signal word contains "short"
\* in any letter case and LONG otherwise (letter case of the stored value
\* aside), its Dedup_Key carries the same side, and entry rule 1 accepts it
\* exactly when that side is LONG; this for the records of both modules
SignalTypeIsLongOrShort ==
    (Parsed /\ Len(SignalParts) >= 3) =>
        LET side == IF contains(lower(SignalParts[2]), <<"s","h","o","r","t">>) THEN <<"S","H","O","R","T">> ELSE <<"L","O","N","G">>
            normalized(built) ==
                built.ok =>
                    /\ upper(CellText(built.val, "Signal_Type", Str(<<>>))) = side
                    /\ upper(split(built.val["Dedup_Key"].s, "|")[4]) = side
                    /\ long_only(built.val) <=> (side = <<"L","O","N","G">>)
        IN  /\ normalized(parse_result.record)
            /\ normalized(parse_result.root_record)

\* C15: a built record whose Exit_Signal_Raw contains "no exit yet" in any
\* letter case, which is what the classifier takes for an open position,
\* has neither an Exit_Date nor an Exit_Price; for the records of both modules
SentinelMeansOpen ==
    Parsed =>
        LET open_without_exit(built) ==
                (/\ built.ok
                 /\ contains(lower(CellText(built.val, "Exit_Signal_Raw", Str(<<>>))),
                             <<"n","o"," ","e","x","i","t"," ","y","e","t">>))
                => /\ built.val["Exit_Date"] = None
                   /\ built.val["Exit_Price"] = None
        IN  /\ open_without_exit(parse_result.record)
            /\ open_without_exit(parse_result.root_record)

\* C16: parse_signal_column, parse_today_vs_signal and build_standard_record
\* return normally for every cell value of the row
ParsersNeverRaise ==
    Parsed =>
        /\ parse_result.signal.ok
        /\ parse_result.today.ok
        /\ parse_result.record.ok

\* C17: when the signal cell has fewer than three comma parts, no
\* YYYY-MM-DD date or no Price: value, parse_signal_column of either module
\* returns Symbol, Signal_Type, Signal_Date and Signal_Price all null
SignalColumnAllOrNothing ==
    LET piece_missing(parts) ==
            \/ Len(parts) < 3
            \/ search_date(strip(join(SubSeq(parts, 3, Len(parts)), ","))) = None
            \/ findall_price(strip(join(SubSeq(parts, 3, Len(parts)), ","))) = <<>>
        all_null(parsed) ==
            parsed.ok =>
                \A f \in {"Symbol", "Signal_Type", "Signal_Date", "Signal_Price"} :
                    parsed.val[f] = None
    IN  (Parsed /\ piece_missing(SignalParts)) =>
            /\ all_null(parse_result.signal)
            /\ all_null(parse_result.root_signal)

---------------------------------------------------------------------------
(* Properties of the ledger builds and price refreshes (SpecLedger) *)

\* C18: a ledger build that finds neither a Distance nor a Trendline file
\* raises and leaves all_signals.csv as it was; a build that finds at least
\* one of them does not raise and builds a record for every row of the
\* files it found
BuildRaisesOnlyWithoutSources ==
    [][(runs' = runs + 1 /\ last_fault' = last_fault) =>
          LET found(d, t) ==
                  IF d = "none" /\ t = "none"
                  THEN /\ last_run'.outcome = "raised"
                       /\ all_signals_csv' = all_signals_csv
                  ELSE /\ last_run'.outcome = "ok"
                       /\ Len(last_run'.new_records)
                              = Len(DistanceTables[d]) + Len(TrendTables[t])
                       /\ all_signals_csv'.kind = "table"
          IN  found(last_run'.sources[1], last_run'.sources[2])]_vars

\* a ledger built from a Trendline file alone, then a build without source files
BuildRaisesOnlyWithoutSourcesWitness ==
    /\ last_run.outcome = "raised"
    /\ last_run.sources = <<"none", "none">>
    /\ all_signals_csv.kind = "table"
    /\ Len(all_signals_csv.rows) = 1
    /\ all_signals_csv.rows[1]["Function"] = <<"T","r","e","n","d","l","i","n","e">>
    /\ last_run.before = all_signals_csv

---------------------------------------------------------------------------
(* Properties of runs that end part-way (SpecFaults) *)

\* C19: after a run that failed, each of all_signals.csv, potential_entry.csv
\* and potential_exit.csv holds either what it held before the run or the
\* complete file the run would have left
NoPartialWrites ==
    last_fault.op # "none" =>
        \A a \in DOMAIN last_fault.after :
            last_fault.after[a] \in {last_fault.before[a], last_fault.intended[a]}

---------------------------------------------------------------------------
(* Properties of builds on an empty ledger (SpecLoad) *)

\* C21: a build that finds source rows and a ledger file that is missing,
\* zero-length or without rows does not raise, and the ledger it writes
\* holds one row for each newly built record and no other row
EmptyLedgerLoads ==
    (/\ last_run.outcome # "none"
     /\ last_run.before.rows = <<>>
     /\ last_run.sources # <<"none", "none">>)
    => /\ last_run.outcome = "ok"
       /\ all_signals_csv.kind = "table"
       /\ Len(LedgerRows) = Len(last_run.new_records)
       /\ \A k \in 1..Len(last_run.new_records) :
              \E i \in 1..Len(LedgerRows) :
                  WithoutTodayPrice(LedgerRows[i])
                      = WithoutTodayPrice(
                            SavedRow(last_run.new_records[k], DOMAIN LedgerRows[i]))

\* a build of two Distance rows and one Trendline row on a zero-length ledger
EmptyLedgerLoadsWitness ==
    /\ last_run.outcome = "ok"
    /\ last_run.before = ZeroLengthFile
    /\ Len(LedgerRows) = 3

---------------------------------------------------------------------------
(* Properties of the saved rows (SpecParse) *)

Saved == parse_pc = "saved"

\* the columns of the raw payload of a record that are no field of the record
RawOnlyColumns(record) == DOMAIN record["Raw_Data"] \ DOMAIN record

KeyBuildersAgree ==
    (Saved /\ parse_result.record.ok) =>
        LET agree(record) ==
                /\ get_trade_dedup_key_from_record(record) = record["Dedup_Key"]
                /\ generate_dedup_key(record) = record["Dedup_Key"]
                /\ root_get_trade_dedup_key_from_record(record) = record["Dedup_Key"]
                /\ get_trade_dedup_key(record) = record["Dedup_Key"]
                /\ build_dedup_key(record) = record["Dedup_Key"]
        IN  agree(parse_result.record.val)

---------------------------------------------------------------------------
(* Properties of the two lists of a classifier run (SpecRuns, SpecRootRuns) *)

\* C27: after a classifier run no Dedup_Key is both in the potential-entry
\* list and in the potential-exit list
NoKeyInBothLists ==
    last_classify.module # "none" =>
        \A i \in 1..Len(potential_entry_csv.rows) :
            \A j \in 1..Len(potential_exit_csv.rows) :
                potential_entry_csv.rows[i]["Dedup_Key"]
                    # potential_exit_csv.rows[j]["Dedup_Key"]

\* C25: every record the entry classifier lists has a Signal_Date that parses
\* and lies 0 to ENTRY_SIGNAL_RECENCY_DAYS days before the fetch date of the
\* run, the date its exit recency check uses
EntriesRecentOnFetchDate ==
    last_classify.module = "utils" =>
        \A i \in 1..Len(potential_entry_csv.rows) :
            LET recent(signal_dt) ==
                    /\ signal_dt.ok
                    /\ last_classify.fetch_date - signal_dt.val >= 0
                    /\ last_classify.fetch_date - signal_dt.val <= ENTRY_SIGNAL_RECENCY_DAYS
            IN  /\ "Signal_Date" \in DOMAIN potential_entry_csv.rows[i]
                /\ recent(strptime_date(Str(potential_entry_csv.rows[i]["Signal_Date"])))

---------------------------------------------------------------------------
(* Properties of the bought trades (SpecBought) *)

BoughtRows == trades_bought_csv.rows

BoughtBefore == last_bought.before.rows

\* the Dedup_Key column of a row of trades_bought.csv as a cell
KeyOfRow(row) == Str(row["Dedup_Key"])

\* C28: no two rows of trades_bought.csv share a Dedup_Key; a Buy returns
\* "added" and appends one row exactly when no stored row has the key of the
\* trade, and otherwise returns "updated" and replaces the row of that key
\* in place; a Remove deletes the rows of its key and no other row
BoughtKeysUnique ==
    /\ \A i, j \in 1..Len(BoughtRows) :
           BoughtRows[i]["Dedup_Key"] = BoughtRows[j]["Dedup_Key"] => i = j
    /\ last_bought.op = "buy" =>
           LET stored == {i \in 1..Len(BoughtBefore) : KeyOfRow(BoughtBefore[i]) = last_bought.key}
           IN  /\ last_bought.result = (IF stored = {} THEN "added" ELSE "updated")
               /\ Len(BoughtRows) = Len(BoughtBefore) + (IF stored = {} THEN 1 ELSE 0)
               /\ \A i \in 1..Len(BoughtBefore) :
                      IF i \in stored THEN KeyOfRow(BoughtRows[i]) = last_bought.key
                      ELSE \A c \in DOMAIN BoughtBefore[i] : BoughtRows[i][c] = BoughtBefore[i][c]
               /\ KeyOfRow(BoughtRows[IF stored = {} THEN Len(BoughtRows)
                                      ELSE CHOOSE i \in stored : TRUE]) = last_bought.key
    /\ last_bought.op = "remove" =>
           BoughtRows = SelectSeq(BoughtBefore, LAMBDA row : KeyOfRow(row) # last_bought.key)

\* a Buy of the first of two bought trades, bought again
BoughtKeysUniqueWitness ==
    /\ last_bought.op = "buy"
    /\ last_bought.result = "updated"
    /\ Len(BoughtRows) = 2
    /\ KeyOfRow(BoughtRows[1]) = last_bought.key

\* the rows of trades_bought.csv before and after an enrichment, as loaded
EnrichedFrom == load_bought_trades(last_bought.before)

EnrichedTo == load_bought_trades(trades_bought_csv)

\* the ledger records an enrichment looked its keys up in
LedgerOfEnrich == load_bought_trades(last_bought.ledger)

HasLedgerRecord(trade) ==
    \E k \in 1..Len(LedgerOfEnrich) :
        Get(LedgerOfEnrich[k], "Dedup_Key", None) = Get(trade, "Dedup_Key", None)

---------------------------------------------------------------------------
(* Growth of the ledger across builds (Spec, SpecLoad, SpecRootRuns, SpecFaults) *)

\* the Dedup_Key values a build computed for the records it rebuilt
RebuiltKeys ==
    {to_csv_cell(last_run.new_records[k]["Dedup_Key"]) : k \in 1..Len(last_run.new_records)}

\* a build that runs to its end keeps every row the ledger held: each has a
\* row with its Dedup_Key afterwards, and a row whose key the build did not
\* rebuild is kept as it was, its Today_Price aside
CompletedBuildsOnlyGrow ==
    last_run.outcome # "none" =>
        /\ Len(LedgerRows) >= Len(last_run.before.rows)
        /\ \A i \in 1..Len(last_run.before.rows) :
               LET row == last_run.before.rows[i]
               IN  \E j \in 1..Len(LedgerRows) :
                       /\ LedgerRows[j]["Dedup_Key"] = row["Dedup_Key"]
                       /\ row["Dedup_Key"] \notin RebuiltKeys
                          => WithoutTodayPrice(LedgerRows[j]) = WithoutTodayPrice(row)

\* C30: the ledger only grows: a trade with a row in the ledger before a
\* build run has a row in the ledger after it, whether the run reaches its
\* end or not, and a run that reaches its end only adds rows or replaces the
\* rows of the keys it rebuilt
LedgerOnlyGrows ==
    /\ CompletedBuildsOnlyGrow
    /\ last_fault.op = "all_signals_main" =>
           \A i \in 1..Len(last_fault.before.ledger.rows) :
               \E j \in 1..Len(last_fault.after.ledger.rows) :
                   last_fault.after.ledger.rows[j]["Dedup_Key"]
                       = last_fault.before.ledger.rows[i]["Dedup_Key"]

=============================================================================
